---- MODULE Spec2Model ----
(***************************************************************************)
(* malloc-tag: the per-thread scope tree (MallocTree / MallocTreeNode),    *)
(* the MallocTagScope RAII object, the tree registry counter and the glibc *)
(* interposer (malloc, realloc, calloc, memalign, valloc, pvalloc, free),  *)
(* as seen from one application thread.                                    *)
(*                                                                         *)
(* The thread under observation is either the thread that calls            *)
(* MallocTagEngine::init() or a secondary thread whose tree is created     *)
(* lazily; the other threads of the process appear only through the        *)
(* registry counter they share with it.                                    *)
(*                                                                         *)
(* Strings are sequences of one-character strings without the terminating  *)
(* NUL; the NUL is what CharAt returns past the end.                       *)
(***************************************************************************)
EXTENDS Integers, Sequences, FiniteSets, TLC

(***************************************************************************)
(* Bounds of the model.  The compile-time limits of the library            *)
(* (MTAG_MAX_SCOPENAME_LEN 20, MTAG_MAX_CHILDREN_PER_NODE 16,              *)
(* MTAG_MAX_TREES 128) are scaled down so that every cap is reached within *)
(* a few operations; the code is generic in them.                          *)
(***************************************************************************)
MTAG_MAX_SCOPENAME_LEN == 3

MTAG_MAX_CHILDREN_PER_NODE == 2

MTAG_MAX_TREES == 2

\* largest max_tree_nodes / max_tree_levels argument given to init()
MaxTreeNodesArg == 4

MaxTreeLevelsArg == 2

\* longest tag handed to a MallocTagScope
MaxTagLen == 3

\* number of MallocTagScope objects a thread constructs on its tree
MaxScopeOps == 4

\* the same where allocations are followed too
ChargeScopeOps == 3

HookScopeOps == 2

\* number of allocations and of frees charged to a tree
MaxAllocOps == 2

MaxFreeOps == 1

\* largest value of g_bytes_allocated_before_init
MaxBytesBeforeInit == 2

\* number of intercepted allocations that return NULL
MaxNullReturns == 1

\* usable size of the blocks a MallocTree is built from
TreeFootprint == 1

\* largest malloc_usable_size() of a block
MaxUsableSize == 2

\* deepest nesting of HookDisabler objects
MaxDisablerDepth == 2

\* number of registration attempts seen on the registry counter
MaxRegistrations == 3

\* number of threads followed one by one
NumThreads == 3

\* largest snapshot interval, in seconds
MaxSnapshotInterval == 2

\* seconds the clock advances while it is followed
MaxClockTicks == 4

\* number of snapshots written
MaxSnapshots == 3

\* allocations charged where the interposer or the scopes are followed
ChargeAllocOps == 1

HookAllocOps == 1

\* tracked operations (allocations, scopes) followed on each thread
MaxTrackedOps == 2

\* MINIMAL_BYTES_TOTAL_THRESHOLD, 1024 in the source, scaled to the usable
\* sizes followed
MINIMAL_BYTES_TOTAL_THRESHOLD == 2

\* scopes constructed where the collection of statistics is followed
StatsScopeOps == 2

\* usable size of the blocks a collection of statistics allocates
StatsFootprint == 1

\* largest value of g_bytes_allocated_before_init where collections are followed
MaxStatsBytes == 3

\* g_bytes_allocated_before_init up to which calls of write_stats are followed
CollectBytesCap == 5

MTAG_SNAPSHOT_DISABLED == 0

MTAG_NODE_WEIGHT_MULTIPLIER == 10000

MINIMAL_WEIGHT_PERC_THRESHOLD == 1

\* the weight percentage from which a node is annotated as hot
HotWeightPerc == 70

\* size_t is 64 bits wide; the wrap-around of its arithmetic is modelled at
\* 2^30, above every sum the bounds allow, so that only an underflow wraps.
SizeTWrap == 2^30

NULL == 0

NUL == "0"

\* the tags an application passes to MallocTagScope: "", "a", "ab", "aba",
\* ... up to MaxTagLen characters, and "b"
TagOfLen(n) == [i \in 1..n |-> IF i % 2 = 1 THEN "a" ELSE "b"]

Tags == {TagOfLen(n) : n \in 0..MaxTagLen} \cup {<<"b">>}

\* the tags used where the interposer is followed
HookTags == {TagOfLen(1), <<"b">>}

\* the max_tree_nodes and max_tree_levels arguments given to init()
TreeNodesArgs == (MaxTreeNodesArg - 1)..MaxTreeNodesArg

TreeLevelsArgs == 1..MaxTreeLevelsArg

\* usable sizes the raw allocator reports for a live block
Sizes == 1..MaxUsableSize

Min(a, b) == IF a < b THEN a ELSE b

Max(a, b) == IF a > b THEN a ELSE b

(***************************************************************************)
(* MallocTagGlibcPrimitive_e                                               *)
(***************************************************************************)
MTAG_GLIBC_PRIMITIVE_MALLOC == "MALLOC"

MTAG_GLIBC_PRIMITIVE_REALLOC == "REALLOC"

MTAG_GLIBC_PRIMITIVE_CALLOC == "CALLOC"

MTAG_GLIBC_PRIMITIVE_FREE == "FREE"

Primitives ==
    {MTAG_GLIBC_PRIMITIVE_MALLOC, MTAG_GLIBC_PRIMITIVE_REALLOC,
     MTAG_GLIBC_PRIMITIVE_CALLOC, MTAG_GLIBC_PRIMITIVE_FREE}

\* the intercepted allocation entry points
AllocEntryPoints == {"malloc", "realloc", "calloc", "memalign", "valloc", "pvalloc"}

VARIABLES
    nMallocTrees,      \* MallocTreeRegistry::m_nMallocTrees
    mainLimits,        \* max nodes / levels of the tree in registry slot 0
    hookActive,        \* g_perthread_malloc_hook_active of the thread
    disablers,         \* m_prev_state of the live HookDisabler objects
    tree,              \* the MallocTree g_perthread_tree points to
    scopes,            \* the live MallocTagScope objects, innermost last
    bytesBeforeInit,   \* g_bytes_allocated_before_init
    nullReturns,       \* how many intercepted allocations returned NULL
    aborted,           \* an assert() of the library has failed
    thr,               \* the threads of the process, where they are followed
                       \* one by one: g_perthread_tree and the call in progress
    slots,             \* MallocTreeRegistry::m_pMallocTreeRegistry, likewise
    snap,              \* the snapshot globals, the clock and the files written
    sig,               \* m_lockTreeStructure of the thread's tree, where the
                       \* thread stands in a push or a pop, and the signal
                       \* handler running on top of it
    teardown,          \* MallocTreeRegistry::m_bShutdownStarted and the progress
                       \* of ~MallocTreeRegistry
    coll               \* the threads that collect or write the statistics:
                       \* where each stands and what it has read

\* what a thread followed alone leaves untouched
envVars == <<thr, slots, snap, sig, teardown, coll>>

vars == <<nMallocTrees, mainLimits, hookActive, disablers, tree, scopes,
          bytesBeforeInit, nullReturns, aborted, thr, slots, snap, sig, teardown, coll>>

Slots == 1..MaxTreeNodesArg

(***************************************************************************)
(* C strings                                                               *)
(***************************************************************************)
CharAt(s, i) == IF i <= Len(s) THEN s[i] ELSE NUL

strlen(s) == Len(s)

\* strncmp(s1, s2, n) == 0
strncmp_eq(s1, s2, n) ==
    \A i \in 1..n :
        (i <= Len(s1) + 1 /\ i <= Len(s2) + 1) => CharAt(s1, i) = CharAt(s2, i)

(***************************************************************************)
(* MallocTreeNode                                                          *)
(***************************************************************************)
NoCalls == [p \in Primitives |-> 0]

\* the content of a pool slot that was never handed out
BlankNode ==
    [scopeName |-> <<>>, treeLevel |-> 0, parent |-> NULL, children |-> <<>>,
     bytesSelf |-> 0, bytesSelfFreed |-> 0, allocationsSelf |-> NoCalls,
     timesEnteredAndExited |-> 0,
     bytesTotal |-> 0, weightTotal |-> 0, weightSelf |-> 0]

\* an init that gives the node the level of its parent
NodeInit_parentLevel(parent, parentLevel) ==
    [scopeName |-> <<>>,
     treeLevel |-> IF parent # NULL THEN parentLevel ELSE 0,
     parent |-> parent, children |-> <<>>,
     bytesSelf |-> 0, bytesSelfFreed |-> 0, allocationsSelf |-> NoCalls,
     timesEnteredAndExited |-> 0,
     bytesTotal |-> 0, weightTotal |-> 0, weightSelf |-> 0]

\* MallocTreeNode::init(parent, threadID); parentLevel is parent->m_nTreeLevel
NodeInit(parent, parentLevel) ==
    [scopeName |-> <<>>,
     treeLevel |-> IF parent # NULL THEN parentLevel + 1 ELSE 0,
     parent |-> parent, children |-> <<>>,
     bytesSelf |-> 0, bytesSelfFreed |-> 0, allocationsSelf |-> NoCalls,
     timesEnteredAndExited |-> 0,
     bytesTotal |-> 0, weightTotal |-> 0, weightSelf |-> 0]

\* MallocTreeNode::set_scope_name: strncpy of MTAG_MAX_SCOPENAME_LEN bytes,
\* then a NUL forced into the last byte of the array
set_scope_name(sitename) ==
    SubSeq(sitename, 1, Min(Len(sitename), MTAG_MAX_SCOPENAME_LEN - 1))

\* a link check that lets one child too many in
link_new_children_ok_offByOne(node) == Len(node.children) <= MTAG_MAX_CHILDREN_PER_NODE

\* MallocTreeNode::link_new_children: TRUE iff the child can be appended
link_new_children_ok(node) == Len(node.children) < MTAG_MAX_CHILDREN_PER_NODE

link_new_children(node, new_child) ==
    IF link_new_children_ok(node)
    THEN [node EXCEPT !.children = Append(@, new_child)]
    ELSE node

\* MallocTreeNode::get_child_by_name: the first child whose stored name
\* compares equal to name over min(strlen(name), MTAG_MAX_SCOPENAME_LEN) bytes
get_child_by_name(nodes, n, name) ==
    LET nchars == Min(strlen(name), MTAG_MAX_SCOPENAME_LEN)
        kids == nodes[n].children
        hits == {i \in 1..Len(kids) : strncmp_eq(nodes[kids[i]].scopeName, name, nchars)}
    IN IF hits = {} THEN NULL
       ELSE kids[CHOOSE i \in hits : \A j \in hits : i <= j]

\* MallocTreeNode::track_alloc
track_alloc(node, type, nBytes) ==
    [node EXCEPT !.bytesSelf = (@ + nBytes) % SizeTWrap,
                 !.allocationsSelf[type] = @ + 1]

\* MallocTreeNode::track_free
track_free(node, type, nBytes) ==
    [node EXCEPT !.bytesSelf = (@ - nBytes) % SizeTWrap,
                 !.allocationsSelf[type] = @ + 1]

\* what MallocTree::track_free_in_current_scope tests: the node reports
\* success unconditionally
track_free_reports(node, type, nBytes) == TRUE

\* MallocTreeNode::track_node_leave
track_node_leave(node) ==
    [node EXCEPT !.timesEnteredAndExited = @ + 1]

\* std::to_string(m_nThreadID) of the thread that owns the tree
ThreadID == <<"7">>

\* the name under which collect_stats_recursively_GRAPHVIZDOT emits a node
\* and refers to it in edges:
\* std::to_string(m_nThreadID) + "_" + get_node_name()
per_thread_node_name(node) == ThreadID \o <<"_">> \o node.scopeName

\* the edges from node n to its children, in the order of m_pChildren
RECURSIVE graphviz_edges(_, _, _)
graphviz_edges(nodes, n, i) ==
    IF i > Len(nodes[n].children) THEN <<>>
    ELSE <<[kind |-> "edge",
            from |-> per_thread_node_name(nodes[n]),
            to |-> per_thread_node_name(nodes[nodes[n].children[i]])]>>
           \o graphviz_edges(nodes, n, i + 1)

\* MallocTreeNode::collect_stats_recursively_GRAPHVIZDOT on node n: the
\* statements appended to the DOT document, in order: the node, its edges,
\* then the output of each child
RECURSIVE collect_stats_recursively_GRAPHVIZDOT(_, _)
RECURSIVE graphviz_of_children(_, _, _)
graphviz_of_children(nodes, n, i) ==
    IF i > Len(nodes[n].children) THEN <<>>
    ELSE collect_stats_recursively_GRAPHVIZDOT(nodes, nodes[n].children[i])
           \o graphviz_of_children(nodes, n, i + 1)

collect_stats_recursively_GRAPHVIZDOT(nodes, n) ==
    <<[kind |-> "node", name |-> per_thread_node_name(nodes[n]),
       shape |-> IF nodes[n].parent = NULL THEN "box" ELSE ""]>>
      \o graphviz_edges(nodes, n, 1)
      \o graphviz_of_children(nodes, n, 1)

(***************************************************************************)
(* fmpool: a pool of a fixed number of MallocTreeNode slots                *)
(***************************************************************************)
\* fmpool_get: a free slot, or NULL when every slot is handed out
fmpool_get(t) ==
    LET free == {s \in 1..t.poolSize : s \notin t.poolUsed}
    IN IF free = {} THEN NULL ELSE CHOOSE s \in free : \A r \in free : s <= r

\* fmpool_free
fmpool_free(t, s) == [t EXCEPT !.poolUsed = @ \ {s}]

(***************************************************************************)
(* MallocTree                                                              *)
(***************************************************************************)
\* a MallocTree that was never init()ialised: g_perthread_tree == nullptr
NoTree ==
    [ready |-> FALSE, poolSize |-> 0, poolUsed |-> {},
     node |-> [s \in Slots |-> BlankNode],
     root |-> NULL, current |-> NULL,
     nPushNodeFailures |-> 0, nTreeNodesInUse |-> 0, nTreeLevels |-> 0,
     nFreeTrackingFailed |-> 0, nMaxTreeNodes |-> 0, nMaxTreeLevels |-> 0]

ThreadName == <<"t">>

\* MallocTree::init(max_tree_nodes, max_tree_levels, is_owned_by_main_thread),
\* when the pool could be allocated
MallocTree_init(max_tree_nodes, max_tree_levels) ==
    [ready |-> TRUE, poolSize |-> max_tree_nodes, poolUsed |-> {1},
     node |-> [s \in Slots |->
                 IF s = 1 THEN [NodeInit(NULL, 0) EXCEPT !.scopeName = ThreadName]
                 ELSE BlankNode],
     root |-> 1, current |-> 1,
     nPushNodeFailures |-> 0, nTreeNodesInUse |-> 1, nTreeLevels |-> 0,
     nFreeTrackingFailed |-> 0,
     nMaxTreeNodes |-> max_tree_nodes, nMaxTreeLevels |-> max_tree_levels]

\* MallocTree::is_ready
is_ready(t) == t.ready /\ t.root # NULL /\ t.current # NULL

\* a mutex that lets every thread in
lock_is_free_always(l) == TRUE

\* std::lock_guard<std::mutex> guard(m_lockTreeStructure): the constructor
\* returns once no thread holds the mutex
lock_is_free(l) == l = "free"

\* the failure exits of push_new_node without the counter
push_fail_uncounted(t) == [tree |-> t, ret |-> FALSE]

\* the failure exits of MallocTree::push_new_node:
\* m_nPushNodeFailures++; return false;
push_fail(t) == [tree |-> [t EXCEPT !.nPushNodeFailures = @ + 1], ret |-> FALSE]

\* giving a node back without counting it out
release_node_uncounted(t, s) == fmpool_free(t, s)

\* counting a node out without giving its slot back to the pool
release_node_keepsSlot(t, s) == [t EXCEPT !.nTreeNodesInUse = @ - 1]

\* push_new_node when link_new_children fails:
\* m_nTreeNodesInUse--; fmpool_free(MallocTreeNode, n, m_pNodePool);
release_node(t, s) == [fmpool_free(t, s) EXCEPT !.nTreeNodesInUse = @ - 1]

\* MallocTree::push_new_node: the tree afterwards and the value returned
push_new_node(t, name) ==
    IF t.node[t.current].treeLevel = t.nMaxTreeLevels
    THEN push_fail(t)
    ELSE
      LET n == get_child_by_name(t.node, t.current, name) IN
      IF n # NULL
      THEN [tree |-> [t EXCEPT !.current = n], ret |-> TRUE]
      ELSE
        LET s == fmpool_get(t) IN
        IF s = NULL
        THEN push_fail(t)
        ELSE
          LET t1 == [t EXCEPT
                       !.poolUsed = @ \cup {s},
                       !.nTreeNodesInUse = @ + 1,
                       !.node[s] =
                           [NodeInit(t.current, t.node[t.current].treeLevel)
                              EXCEPT !.scopeName = set_scope_name(name)]]
          IN
          IF ~link_new_children_ok(t1.node[t1.current])
          THEN push_fail(release_node(t1, s))
          ELSE [tree |-> [t1 EXCEPT
                            !.node[t1.current] = link_new_children(@, s),
                            !.current = s,
                            !.nTreeLevels = Max(@, t1.node[s].treeLevel)],
                ret |-> TRUE]

\* which return statement of MallocTree::push_new_node a call takes
push_outcome(t, name) ==
    IF t.node[t.current].treeLevel = t.nMaxTreeLevels THEN "level"
    ELSE IF get_child_by_name(t.node, t.current, name) # NULL THEN "found"
    ELSE IF fmpool_get(t) = NULL THEN "pool"
    ELSE IF ~link_new_children_ok(t.node[t.current]) THEN "siblings"
    ELSE "created"

\* MallocTree::pop_last_node, called with the cursor below the root
pop_last_node(t) ==
    [t EXCEPT !.node[t.current] = track_node_leave(@),
              !.current = t.node[t.current].parent]

\* an allocation charged to the root instead of the cursor
track_alloc_in_root(t, type, nBytes) ==
    [t EXCEPT !.node[t.root] = track_alloc(@, type, nBytes)]

\* MallocTree::track_alloc_in_current_scope
track_alloc_in_current_scope(t, type, nBytes) ==
    [t EXCEPT !.node[t.current] = track_alloc(@, type, nBytes)]

\* MallocTree::track_free_in_current_scope
track_free_in_current_scope(t, type, nBytes) ==
    [t EXCEPT !.node[t.current] = track_free(@, type, nBytes),
              !.nFreeTrackingFailed =
                  IF ~track_free_reports(t.node[t.current], type, nBytes)
                  THEN @ + 1 ELSE @]

\* a total that leaves the node's own bytes out
bytes_total_childrenOnly(accumulated_bytes, self) == accumulated_bytes

\* MallocTreeNode::compute_bytes_totals_recursively, the visit of the node:
\* m_nBytesTotalAllocated = accumulated_bytes + m_nBytesSelfAllocated
bytes_total(accumulated_bytes, self) == (accumulated_bytes + self) % SizeTWrap

\* a * b in size_t arithmetic, by doubling, so that no intermediate value
\* leaves the range of the integers
RECURSIVE mul_size_t(_, _)
mul_size_t(a, b) ==
    IF a = 0 THEN 0
    ELSE (((2 * mul_size_t(a \div 2, b)) % SizeTWrap) + ((a % 2) * b)) % SizeTWrap

\* MallocTreeNode::compute_bytes_totals_recursively on node n: the nodes
\* afterwards.  totals_of_children walks m_pChildren from index i on and
\* returns the nodes and the bytes accumulated.
RECURSIVE compute_bytes_totals_recursively(_, _)
RECURSIVE totals_of_children(_, _, _, _)
totals_of_children(nodes, n, i, accumulated_bytes) ==
    IF i > Len(nodes[n].children)
    THEN [nodes |-> nodes, accumulated_bytes |-> accumulated_bytes]
    ELSE LET c == nodes[n].children[i]
             done == compute_bytes_totals_recursively(nodes, c)
         IN totals_of_children(done, n, i + 1,
                               (accumulated_bytes + done[c].bytesTotal) % SizeTWrap)

compute_bytes_totals_recursively(nodes, n) ==
    LET r == totals_of_children(nodes, n, 1, 0)
    IN [r.nodes EXCEPT ![n].bytesTotal =
                           bytes_total(r.accumulated_bytes, r.nodes[n].bytesSelf)]

\* MallocTreeNode::compute_node_weights_recursively on node n;
\* weights_of_children recurses into m_pChildren from index i on
RECURSIVE compute_node_weights_recursively(_, _, _)
RECURSIVE weights_of_children(_, _, _, _)
weights_of_children(nodes, n, i, rootNodeTotalBytes) ==
    IF i > Len(nodes[n].children) THEN nodes
    ELSE weights_of_children(
             compute_node_weights_recursively(nodes, nodes[n].children[i],
                                              rootNodeTotalBytes),
             n, i + 1, rootNodeTotalBytes)

compute_node_weights_recursively(nodes, n, rootNodeTotalBytes) ==
    LET weighed ==
            IF rootNodeTotalBytes = 0
            THEN [nodes EXCEPT ![n].weightTotal = 0, ![n].weightSelf = 0]
            ELSE [nodes EXCEPT
                    ![n].weightTotal =
                        mul_size_t(MTAG_NODE_WEIGHT_MULTIPLIER, nodes[n].bytesTotal)
                            \div rootNodeTotalBytes,
                    ![n].weightSelf =
                        mul_size_t(MTAG_NODE_WEIGHT_MULTIPLIER, nodes[n].bytesSelf)
                            \div rootNodeTotalBytes]
    IN weights_of_children(weighed, n, 1, rootNodeTotalBytes)

\* MallocTree::collect_stats_recursively: the totals, then the weights
\* relative to the total of the root
collect_stats_recursively(t) ==
    LET totalled == compute_bytes_totals_recursively(t.node, t.root)
    IN [t EXCEPT !.node = compute_node_weights_recursively(
                              totalled, t.root, totalled[t.root].bytesTotal)]

\* get_total_weight_percentage() >= perc, the percentage being
\* 100.0f * m_nWeightTotal / MTAG_NODE_WEIGHT_MULTIPLIER
weight_percentage_at_least(node, perc) ==
    node.weightTotal >= perc * (MTAG_NODE_WEIGHT_MULTIPLIER \div 100)

\* collect_stats_recursively_HUMANFRIENDLY: whether the figures of the node
\* are printed, and what follows nWeightPercentage on its line
node_is_printed(node) ==
    /\ node.bytesTotal >= MINIMAL_BYTES_TOTAL_THRESHOLD
    /\ weight_percentage_at_least(node, MINIMAL_WEIGHT_PERC_THRESHOLD)

hot_annotation(node) ==
    IF ~node_is_printed(node) THEN "hidden"
    ELSE IF weight_percentage_at_least(node, HotWeightPerc)
         THEN (IF node.bytesTotal # node.bytesSelf THEN "hot path" ELSE "hot leaf")
         ELSE "none"

\* MallocTreeNode::collect_stats_recursively_HUMANFRIENDLY from node n: the
\* nodes the output mentions, each with its annotation; the children of a
\* node are visited when its figures are printed
RECURSIVE collect_stats_recursively_HUMANFRIENDLY(_, _)
collect_stats_recursively_HUMANFRIENDLY(nodes, n) ==
    {<<n, hot_annotation(nodes[n])>>}
      \cup (IF node_is_printed(nodes[n])
            THEN UNION {collect_stats_recursively_HUMANFRIENDLY(nodes, nodes[n].children[i]) :
                           i \in DOMAIN nodes[n].children}
            ELSE {})

(***************************************************************************)
(* MallocTreeRegistry                                                      *)
(***************************************************************************)
\* MallocTreeRegistry::has_main_thread_tree
has_main_thread_tree(nTrees) == nTrees > 0

\* MallocTreeRegistry::register_main_tree, with memory available: the counter
\* afterwards and the tree returned
register_main_tree(nTrees, max_tree_nodes, max_tree_levels) ==
    [nTrees |-> nTrees + 1,
     tree |-> MallocTree_init(max_tree_nodes, max_tree_levels)]

\* MallocTreeRegistry::register_secondary_thread_tree, with memory available:
\* the counter afterwards and the tree returned (NoTree for nullptr)
register_secondary_thread_tree(nTrees, limits) ==
    LET reservedIdx == nTrees IN
    [nTrees |-> nTrees + 1,
     tree |-> IF reservedIdx >= MTAG_MAX_TREES
              THEN NoTree
              ELSE MallocTree_init(limits.nodes, limits.levels)]

(***************************************************************************)
(* The engine: reentrancy guard, lazy tree creation                        *)
(***************************************************************************)
\* PrivateHelpers::EnsureTreeForThisThreadIsReady: the value returned, the
\* registry counter and the thread's tree afterwards, and whether a tree was
\* constructed on the way (inside a HookDisabler)
EnsureTreeForThisThreadIsReady(hook, nTrees, limits, t) ==
    IF hook /\ has_main_thread_tree(nTrees)
    THEN IF ~is_ready(t)
         THEN LET r == register_secondary_thread_tree(nTrees, limits) IN
              [ok |-> is_ready(r.tree), nTrees |-> r.nTrees, tree |-> r.tree,
               built |-> is_ready(r.tree)]
         ELSE [ok |-> TRUE, nTrees |-> nTrees, tree |-> t, built |-> FALSE]
    ELSE [ok |-> FALSE, nTrees |-> nTrees, tree |-> t, built |-> FALSE]

(***************************************************************************)
(* State                                                                   *)
(***************************************************************************)
NoLimits == [nodes |-> 0, levels |-> 0]

Threads == 1..NumThreads

\* a thread that has not touched the library: g_perthread_tree == nullptr.
\* pc is where the thread stands in a call of init or of
\* EnsureTreeForThisThreadIsReady, idx the registry index it has reserved,
\* trees the number of trees it has been given so far, initRet what its last
\* call of init returned, late whether that call began after a call of init
\* had succeeded.
FreshThread ==
    [pc |-> "idle", hasTree |-> FALSE, idx |-> 0, trees |-> 0,
     initRet |-> "none", late |-> FALSE, ops |-> 0, lock |-> "free"]

\* the time of day when the process starts, far from the epoch
ClockStart == MaxSnapshotInterval + 1

\* a file name <prefix>.<NNNN>.<ext>, NNNN being index as four zero-padded
\* decimal digits
four_digits(index) ==
    <<(index \div 1000) % 10, (index \div 100) % 10, (index \div 10) % 10, index % 10>>

SnapshotFile(prefix, index, ext) == <<prefix, four_digits(index), ext>>

\* the value of an environment variable that is not set, and the empty
\* string
Unset == <<>>

\* a path the application passes to write_stats
StatsPath == <<"stats">>

\* the files of the disk that are followed; snap.disk tells for each the
\* document it holds (none, json or dot).  snap.statsRet is what the last
\* call of write_stats by the application returned.
Paths ==
    {SnapshotFile("snapshot", 0, "json"), SnapshotFile("snapshot", 0, "dot"), StatsPath}

\* g_snapshot_interval_sec and g_snapshot_last_timestamp_sec (zero
\* initialised), the clock, the values of MTAG_STATS_OUTPUT_JSON and
\* MTAG_STATS_OUTPUT_GRAPHVIZ_DOT, for each call of write_snapshot_if_needed
\* that wrote something the time and the files written, what the last
\* call returned, and the number MTAG_SNAPSHOT_INTERVAL_SEC holds (0 when it
\* is not set)
NoSnapshots ==
    [intervalSec |-> 0, lastTimestampSec |-> 0, now |-> ClockStart,
     jsonEnv |-> Unset, dotEnv |-> Unset, written |-> <<>>, lastRet |-> "none",
     intervalEnv |-> 0, disk |-> [f \in Paths |-> "none"], statsRet |-> "none"]

\* nobody holds m_lockTreeStructure, the thread is outside push_new_node
\* and pop_last_node, no signal handler is running
NoSignal == [lock |-> "free", pc |-> "run", tag |-> <<>>, handler |-> "none"]

\* the registry is alive: m_bShutdownStarted is false, no tree was deleted.
\* deleted lists the indices of m_pMallocTreeRegistry handed to delete, in
\* order; registered is m_nMallocTrees when the destructor starts.
NoTeardown ==
    [started |-> FALSE, pc |-> "alive", toDelete |-> 0, deleted |-> <<>>,
     registered |-> 0]

\* the threads that call collect_stats or write_stats
Collectors == {"c1", "c2"}

\* a collector outside any call
IdleCollector ==
    [pc |-> "idle", format |-> "none", json |-> <<>>, dot |-> <<>>,
     numTrees |-> 0, i |-> 0, now |-> 0]

Init ==
    /\ coll = [c \in Collectors |-> IdleCollector]
    /\ sig = NoSignal
    /\ teardown = NoTeardown
    /\ thr = [t \in Threads |-> FreshThread]
    /\ slots = [i \in 0..(MTAG_MAX_TREES - 1) |-> 0]
    /\ snap = NoSnapshots
    /\ nMallocTrees = 0
    /\ mainLimits = NoLimits
    /\ hookActive = TRUE
    /\ disablers = <<>>
    /\ tree = NoTree
    /\ scopes = <<>>
    /\ bytesBeforeInit = 0
    /\ nullReturns = 0
    /\ aborted = FALSE

\* an interposer that books every allocation as a malloc
ChargedPrimitive_allMalloc(entry) == MTAG_GLIBC_PRIMITIVE_MALLOC

\* the primitive an entry point charges its allocation to
ChargedPrimitive(entry) ==
    CASE entry = "malloc" -> MTAG_GLIBC_PRIMITIVE_MALLOC
      [] entry = "realloc" -> MTAG_GLIBC_PRIMITIVE_REALLOC
      [] OTHER -> MTAG_GLIBC_PRIMITIVE_CALLOC

\* the registry counter may still take one more fetch_add within the bounds
CounterHasRoom == is_ready(tree) \/ nMallocTrees < MaxRegistrations

InUse(t) == t.poolUsed

RECURSIVE SumOver(_, _)
SumOver(f, S) ==
    IF S = {} THEN 0
    ELSE LET x == CHOOSE y \in S : TRUE IN f[x] + SumOver(f, S \ {x})

\* the MallocTagScope objects constructed so far on the thread's tree: the
\* ones whose push failed, the ones already left and the other live ones
ScopesConstructed(t) ==
    t.nPushNodeFailures
      + Cardinality({i \in 1..Len(scopes) :
                        ~scopes[i].tried \/ scopes[i].bLastPushWasSuccessful})
      + SumOver([s \in Slots |-> t.node[s].timesEnteredAndExited], InUse(t))

\* the allocations and the frees charged to the tree so far
AllocsCharged(t) ==
    SumOver([s \in Slots |->
               SumOver(t.node[s].allocationsSelf,
                       Primitives \ {MTAG_GLIBC_PRIMITIVE_FREE})], InUse(t))

FreesCharged(t) ==
    SumOver([s \in Slots |-> t.node[s].allocationsSelf[MTAG_GLIBC_PRIMITIVE_FREE]],
            InUse(t))

\* MallocTagEngine::init from the assignment of g_snapshot_interval_sec on:
\* the global takes the argument; the number read from the environment goes
\* to the parameter snapshot_interval_sec, which is not read again
init_interval(snapshot_interval_sec, n) ==
    [g_snapshot_interval_sec |-> snapshot_interval_sec,
     snapshot_interval_sec |->
         IF snapshot_interval_sec = MTAG_SNAPSHOT_DISABLED /\ n # 0
         THEN n
         ELSE snapshot_interval_sec]

(***************************************************************************)
(* MallocTagEngine::init called by the thread, with memory available and   *)
(* no other thread having registered the main tree.  The blocks the tree   *)
(* is built from are allocated through the interposer inside the           *)
(* HookDisabler, which adds them to g_bytes_allocated_before_init.         *)
(***************************************************************************)
MallocTagEngine_init_with(max_tree_nodes, max_tree_levels, snapshot_interval_sec) ==
    /\ ~aborted
    /\ hookActive
    /\ ~is_ready(tree)
    /\ nMallocTrees = 0
    /\ LET r == register_main_tree(nMallocTrees, max_tree_nodes, max_tree_levels)
       IN /\ nMallocTrees' = r.nTrees
          /\ tree' = r.tree
    /\ mainLimits' = [nodes |-> max_tree_nodes, levels |-> max_tree_levels]
    /\ bytesBeforeInit' = (bytesBeforeInit + TreeFootprint) % SizeTWrap
    /\ UNCHANGED <<hookActive, disablers, scopes, nullReturns, aborted>>
    /\ snap' = [snap EXCEPT !.intervalSec =
                                init_interval(snapshot_interval_sec,
                                              snap.intervalEnv).g_snapshot_interval_sec]
    /\ UNCHANGED <<thr, slots, sig, teardown, coll>>

\* MallocTagEngine::init(max_tree_nodes, max_tree_levels), the snapshot interval
\* defaulted
MallocTagEngine_init(max_tree_nodes, max_tree_levels) ==
    MallocTagEngine_init_with(max_tree_nodes, max_tree_levels, MTAG_SNAPSHOT_DISABLED)

\* another thread is the one that calls MallocTagEngine::init first
OtherThreadInit(max_tree_nodes, max_tree_levels) ==
    /\ ~aborted
    /\ nMallocTrees = 0
    /\ nMallocTrees' = 1
    /\ mainLimits' = [nodes |-> max_tree_nodes, levels |-> max_tree_levels]
    /\ bytesBeforeInit' = (bytesBeforeInit + TreeFootprint) % SizeTWrap
    /\ UNCHANGED <<hookActive, disablers, tree, scopes, nullReturns, aborted>>
    /\ UNCHANGED envVars

\* another thread runs register_secondary_thread_tree
OtherThreadRegisters ==
    /\ ~aborted
    /\ nMallocTrees >= 1
    /\ nMallocTrees < MaxRegistrations
    /\ nMallocTrees' = nMallocTrees + 1
    /\ bytesBeforeInit' =
           IF nMallocTrees < MTAG_MAX_TREES
           THEN (bytesBeforeInit + TreeFootprint) % SizeTWrap
           ELSE bytesBeforeInit
    /\ UNCHANGED <<mainLimits, hookActive, disablers, tree, scopes, nullReturns,
                   aborted>>
    /\ UNCHANGED envVars

(***************************************************************************)
(* MallocTagScope::MallocTagScope(tag_name).  When no tree is available    *)
(* m_bLastPushWasSuccessful is left as it was found (garbage).  For the    *)
(* properties the scope also records whether push_new_node was called      *)
(* (tried), the cursor before (at) and after (node) the call, the return   *)
(* statement taken (outcome), the number of allocations charged to the     *)
(* tree so far (allocsBefore) and the number of HookDisabler objects alive *)
(* (window).                                                               *)
(***************************************************************************)
MallocTagScope_ctor_anywhere(tag_name, garbage) ==
    /\ ~aborted
    /\ CounterHasRoom
    /\ ScopesConstructed(tree) < MaxScopeOps
    /\ LET e == EnsureTreeForThisThreadIsReady(hookActive, nMallocTrees, mainLimits, tree)
           p == push_new_node(e.tree, tag_name)
       IN /\ nMallocTrees' = e.nTrees
          /\ bytesBeforeInit' =
                 IF e.built THEN (bytesBeforeInit + TreeFootprint) % SizeTWrap
                 ELSE bytesBeforeInit
          /\ IF e.ok
             THEN /\ tree' = p.tree
                  /\ scopes' = Append(scopes,
                         [bLastPushWasSuccessful |-> p.ret, tag |-> tag_name,
                          tried |-> TRUE, at |-> e.tree.current,
                          node |-> p.tree.current,
                          outcome |-> push_outcome(e.tree, tag_name),
                          allocsBefore |-> AllocsCharged(e.tree),
                          window |-> Len(disablers)])
             ELSE /\ tree' = e.tree
                  /\ scopes' = Append(scopes,
                         [bLastPushWasSuccessful |-> garbage, tag |-> tag_name,
                          tried |-> FALSE, at |-> NULL, node |-> NULL,
                          outcome |-> "notree", allocsBefore |-> 0,
                          window |-> Len(disablers)])
    /\ UNCHANGED <<mainLimits, hookActive, disablers, nullReturns, aborted>>
    /\ UNCHANGED envVars

\* the constructor in application code that runs with the hook active and
\* after the engine was initialised
MallocTagScope_ctor(tag_name, garbage) ==
    /\ hookActive
    /\ has_main_thread_tree(nMallocTrees)
    /\ MallocTagScope_ctor_anywhere(tag_name, garbage)

\* a destructor that pops whatever the push returned
dtor_pops_always(treeIsReady, bLastPushWasSuccessful) == treeIsReady

\* MallocTagScope::~MallocTagScope: whether pop_last_node is called
dtor_pops(treeIsReady, bLastPushWasSuccessful) ==
    treeIsReady /\ bLastPushWasSuccessful

(***************************************************************************)
(* MallocTagScope::~MallocTagScope of the innermost live scope.  A pop     *)
(* with the cursor on the root fails the assert in pop_last_node.          *)
(***************************************************************************)
MallocTagScope_dtor_anywhere ==
    /\ ~aborted
    /\ scopes # <<>>
    /\ CounterHasRoom
    /\ LET sc == scopes[Len(scopes)]
           e == EnsureTreeForThisThreadIsReady(hookActive, nMallocTrees, mainLimits, tree)
           pops == dtor_pops(e.ok, sc.bLastPushWasSuccessful)
           atRoot == e.tree.node[e.tree.current].parent = NULL
       IN /\ nMallocTrees' = e.nTrees
          /\ bytesBeforeInit' =
                 IF e.built THEN (bytesBeforeInit + TreeFootprint) % SizeTWrap
                 ELSE bytesBeforeInit
          /\ tree' = IF pops /\ ~atRoot THEN pop_last_node(e.tree) ELSE e.tree
          /\ aborted' = (pops /\ atRoot)
    /\ scopes' = SubSeq(scopes, 1, Len(scopes) - 1)
    /\ UNCHANGED <<mainLimits, hookActive, disablers, nullReturns>>
    /\ UNCHANGED envVars

\* the destructor in application code that runs with the hook active
MallocTagScope_dtor ==
    /\ hookActive
    /\ MallocTagScope_dtor_anywhere

\* an interposer without the test of the pointer
result_is_tracked_always(result) == TRUE

\* the test every allocation entry point makes before tracking: if (result)
result_is_tracked(result) == result # NULL

(***************************************************************************)
(* malloc, realloc, calloc, memalign, valloc, pvalloc.  result is NULL     *)
(* when the glibc implementation returns a null pointer, otherwise         *)
(* malloc_usable_size() of the block it returns; the entry point returns   *)
(* what glibc returned.                                                    *)
(***************************************************************************)
InterceptedAlloc(entry, result) ==
    /\ ~aborted
    /\ IF ~result_is_tracked(result)
       THEN /\ nullReturns < MaxNullReturns
            /\ nullReturns' = nullReturns + 1
            /\ UNCHANGED <<nMallocTrees, tree, bytesBeforeInit>>
       ELSE LET e == EnsureTreeForThisThreadIsReady(hookActive, nMallocTrees, mainLimits, tree)
            IN /\ CounterHasRoom
               /\ nMallocTrees' = e.nTrees
               /\ UNCHANGED nullReturns
               /\ IF e.ok
                  THEN /\ AllocsCharged(e.tree) < MaxAllocOps
                       /\ tree' = track_alloc_in_current_scope(
                                      e.tree, ChargedPrimitive(entry), result)
                       /\ bytesBeforeInit' =
                              IF e.built THEN (bytesBeforeInit + TreeFootprint) % SizeTWrap
                              ELSE bytesBeforeInit
                  ELSE /\ bytesBeforeInit + result <= MaxBytesBeforeInit
                       /\ tree' = e.tree
                       /\ bytesBeforeInit' = (bytesBeforeInit + result) % SizeTWrap
    /\ UNCHANGED <<mainLimits, hookActive, disablers, scopes, aborted>>
    /\ UNCHANGED envVars

(***************************************************************************)
(* free(ptr); nbytes is malloc_usable_size(ptr), read before __libc_free   *)
(***************************************************************************)
\* a free that is charged whatever the hook flag says
free_is_tracked_anyHook(hook, t) == is_ready(t)

\* free: if (g_perthread_malloc_hook_active)
\*           if (g_perthread_tree && g_perthread_tree->is_ready())
free_is_tracked(hook, t) == hook /\ is_ready(t)

InterceptedFree(nbytes) ==
    /\ ~aborted
    /\ FreesCharged(tree) < MaxFreeOps
    /\ tree' = IF free_is_tracked(hookActive, tree)
               THEN track_free_in_current_scope(tree, MTAG_GLIBC_PRIMITIVE_FREE, nbytes)
               ELSE tree
    /\ UNCHANGED <<nMallocTrees, mainLimits, hookActive, disablers, scopes,
                   bytesBeforeInit, nullReturns, aborted>>
    /\ UNCHANGED envVars

(***************************************************************************)
(* HookDisabler                                                            *)
(***************************************************************************)
HookDisabler_ctor ==
    /\ ~aborted
    /\ Len(disablers) < MaxDisablerDepth
    /\ disablers' = Append(disablers, hookActive)
    /\ hookActive' = FALSE
    /\ UNCHANGED <<nMallocTrees, mainLimits, tree, scopes, bytesBeforeInit,
                   nullReturns, aborted>>
    /\ UNCHANGED envVars

\* a destructor that enables the hook whatever the constructor found
restored_state_enabled(m_prev_state) == TRUE

\* ~HookDisabler: g_perthread_malloc_hook_active = m_prev_state
restored_state(m_prev_state) == m_prev_state

HookDisabler_dtor ==
    /\ ~aborted
    /\ disablers # <<>>
    /\ hookActive' = restored_state(disablers[Len(disablers)])
    /\ disablers' = SubSeq(disablers, 1, Len(disablers) - 1)
    /\ UNCHANGED <<nMallocTrees, mainLimits, tree, scopes, bytesBeforeInit,
                   nullReturns, aborted>>
    /\ UNCHANGED envVars

(***************************************************************************)
(* The threads of the process, each with its own g_perthread_tree, sharing *)
(* the registry.  A call of init and a call of                             *)
(* EnsureTreeForThisThreadIsReady are split where they touch the registry: *)
(* at the fetch_add on m_nMallocTrees and at the store into                *)
(* m_pMallocTreeRegistry.  The threads run with their hook active.         *)
(***************************************************************************)
\* a thread registers every time it is asked to
tree_missing_always(hasTree) == TRUE

\* EnsureTreeForThisThreadIsReady: !g_perthread_tree || !g_perthread_tree->is_ready()
tree_missing(hasTree) == ~hasTree

\* the tree registered at index idx was handed to delete by the destructor
\* of the registry
tree_destroyed(td, idx) == \E k \in DOMAIN td.deleted : td.deleted[k] = idx

\* m_bShutdownStarted, read atomically at the entry of a registration
shutdown_started(td) == td.started

\* some call of init has returned true
InitSucceeded == \E u \in Threads : thr[u].initRet = "true"

ThreadsUnchanged ==
    UNCHANGED <<hookActive, disablers, tree, scopes, nullReturns, snap, sig,
                teardown, coll>>

\* MallocTagEngine::init up to the call of register_main_tree: a thread that
\* has its tree returns true at once
InitCall(t) ==
    /\ ~aborted
    /\ thr[t].pc = "idle"
    /\ thr' = [thr EXCEPT ![t] =
                 IF thr[t].hasTree
                 THEN [@ EXCEPT !.initRet = "true", !.late = InitSucceeded]
                 ELSE [@ EXCEPT !.initRet = "none", !.late = InitSucceeded,
                                !.pc = "init_fetch"]]
    /\ UNCHANGED <<nMallocTrees, mainLimits, slots, bytesBeforeInit, aborted>>
    /\ ThreadsUnchanged

\* register_main_tree: assert(m_nMallocTrees.fetch_add(1) == 0); the build
\* keeps assertions, so a counter that was not zero aborts the process
InitFetchAdd(t) ==
    /\ ~aborted
    /\ thr[t].pc = "init_fetch"
    /\ IF shutdown_started(teardown)
       THEN /\ thr' = [thr EXCEPT ![t] = [@ EXCEPT !.pc = "idle",
                                                  !.initRet = "false"]]
            /\ UNCHANGED <<nMallocTrees, aborted>>
       ELSE /\ nMallocTrees < MaxRegistrations
            /\ nMallocTrees' = nMallocTrees + 1
            /\ IF nMallocTrees = 0
               THEN /\ thr' = [thr EXCEPT ![t].pc = "init_store"]
                    /\ aborted' = aborted
               ELSE /\ thr' = [thr EXCEPT ![t].pc = "assert_failed"]
                    /\ aborted' = TRUE
    /\ UNCHANGED <<mainLimits, slots, bytesBeforeInit>>
    /\ ThreadsUnchanged

\* register_main_tree from new MallocTree() on, with memory available, and
\* the rest of init: the tree is stored at index 0 and init returns true
InitStore(t, max_tree_nodes, max_tree_levels) ==
    /\ ~aborted
    /\ thr[t].pc = "init_store"
    /\ slots' = [slots EXCEPT ![0] = t]
    /\ mainLimits' = [nodes |-> max_tree_nodes, levels |-> max_tree_levels]
    /\ thr' = [thr EXCEPT ![t] = [@ EXCEPT !.pc = "idle", !.hasTree = TRUE,
                                           !.idx = 0, !.trees = @ + 1,
                                           !.initRet = "true"]]
    /\ bytesBeforeInit' = (bytesBeforeInit + TreeFootprint) % SizeTWrap
    /\ UNCHANGED <<nMallocTrees, aborted>>
    /\ ThreadsUnchanged

\* a tracked allocation or a scope on thread t: EnsureTreeForThisThreadIsReady
\* up to the index check of register_secondary_thread_tree.  The counter is
\* incremented before the index is compared with MTAG_MAX_TREES.  A thread
\* that has a tree reads it through g_perthread_tree, which nothing resets
\* when the registry deletes the tree: the read of the freed tree either
\* finds what was there or crashes.
TrackedOp(t) ==
    /\ ~aborted
    /\ thr[t].pc = "idle"
    /\ thr[t].ops < MaxTrackedOps
    /\ IF /\ has_main_thread_tree(nMallocTrees) /\ tree_missing(thr[t].hasTree)
          /\ ~shutdown_started(teardown)
       THEN /\ nMallocTrees < MaxRegistrations
            /\ nMallocTrees' = nMallocTrees + 1
            /\ LET reservedIdx == nMallocTrees IN
               thr' = [thr EXCEPT ![t] =
                         IF reservedIdx >= MTAG_MAX_TREES
                         THEN [@ EXCEPT !.ops = @ + 1, !.hasTree = FALSE]
                         ELSE [@ EXCEPT !.ops = @ + 1, !.pc = "sec_store",
                                        !.idx = reservedIdx]]
            /\ aborted' = aborted
       ELSE /\ nMallocTrees' = nMallocTrees
            /\ IF thr[t].hasTree /\ tree_destroyed(teardown, thr[t].idx)
               THEN \/ /\ thr' = [thr EXCEPT ![t].ops = @ + 1]
                       /\ aborted' = aborted
                    \/ /\ thr' = [thr EXCEPT ![t].pc = "crashed"]
                       /\ aborted' = TRUE
               ELSE /\ thr' = [thr EXCEPT ![t].ops = @ + 1]
                    /\ aborted' = aborted
    /\ UNCHANGED <<mainLimits, slots, bytesBeforeInit>>
    /\ ThreadsUnchanged

\* register_secondary_thread_tree from new MallocTree() on, with memory
\* available: t->init(m_pMallocTreeRegistry[0]) reads the main tree, which
\* the thread inside init may not have stored yet; reading through the null
\* pointer either crashes or yields a tree with whatever limits were read
SecStore(t) ==
    /\ ~aborted
    /\ thr[t].pc = "sec_store"
    /\ \/ /\ slots[0] = 0
          /\ thr' = [thr EXCEPT ![t].pc = "crashed"]
          /\ aborted' = TRUE
          /\ UNCHANGED <<slots, bytesBeforeInit>>
       \/ /\ slots' = [slots EXCEPT ![thr[t].idx] = t]
          /\ thr' = [thr EXCEPT ![t] = [@ EXCEPT !.pc = "idle", !.hasTree = TRUE,
                                                 !.trees = @ + 1]]
          /\ bytesBeforeInit' = (bytesBeforeInit + TreeFootprint) % SizeTWrap
          /\ aborted' = aborted
    /\ UNCHANGED <<nMallocTrees, mainLimits>>
    /\ ThreadsUnchanged

(***************************************************************************)
(* The threads at work on their trees while other threads collect the      *)
(* statistics of the whole registry.  thr[t].lock is m_lockTreeStructure   *)
(* of the tree of thread t.                                                *)
(***************************************************************************)
RunFrame ==
    UNCHANGED <<nMallocTrees, mainLimits, hookActive, disablers, tree, scopes,
                bytesBeforeInit, nullReturns, slots, snap, sig, teardown>>

\* a push or a pop on thread t, which has its tree: the lock_guard
OwnerLock(t) ==
    /\ ~aborted
    /\ thr[t].pc = "idle"
    /\ thr[t].hasTree
    /\ thr[t].ops < MaxTrackedOps
    /\ lock_is_free(thr[t].lock)
    /\ thr' = [thr EXCEPT ![t] = [@ EXCEPT !.pc = "locked", !.lock = "owner",
                                           !.ops = @ + 1]]
    /\ UNCHANGED <<coll, aborted>>
    /\ RunFrame

\* the return of the push or of the pop
OwnerUnlock(t) ==
    /\ ~aborted
    /\ thr[t].pc = "locked"
    /\ thr' = [thr EXCEPT ![t] = [@ EXCEPT !.pc = "idle", !.lock = "free"]]
    /\ UNCHANGED <<coll, aborted>>
    /\ RunFrame

\* MallocTreeRegistry::collect_stats: num_trees = m_nMallocTrees.load()
RegistryCollectBegin(c) ==
    /\ ~aborted
    /\ coll[c].pc = "idle"
    /\ has_main_thread_tree(nMallocTrees)
    /\ coll' = [coll EXCEPT ![c] = [@ EXCEPT !.pc = "walking",
                                             !.numTrees = nMallocTrees, !.i = 0]]
    /\ UNCHANGED <<thr, aborted>>
    /\ RunFrame

\* m_pMallocTreeRegistry[i]->collect_stats_recursively(...) up to its
\* lock_guard.  A slot that no registration has stored yet holds a null
\* pointer, and an index past the array reads what lies behind it: the call
\* through such a pointer crashes.
RegistryCollectTree(c) ==
    /\ ~aborted
    /\ coll[c].pc = "walking"
    /\ LET i == coll[c].i IN
       IF i \notin DOMAIN slots \/ slots[i] = 0
       THEN /\ coll' = [coll EXCEPT ![c].pc = "crashed"]
            /\ aborted' = TRUE
            /\ UNCHANGED thr
       ELSE /\ lock_is_free(thr[slots[i]].lock)
            /\ thr' = [thr EXCEPT ![slots[i]].lock = c]
            /\ coll' = [coll EXCEPT ![c].pc = "in_tree"]
            /\ UNCHANGED aborted
    /\ RunFrame

\* the return of collect_stats_recursively, and the next turn of the loop or
\* the return of MallocTreeRegistry::collect_stats
RegistryCollectNext(c) ==
    /\ ~aborted
    /\ coll[c].pc = "in_tree"
    /\ thr' = [thr EXCEPT ![slots[coll[c].i]].lock = "free"]
    /\ coll' = [coll EXCEPT ![c] =
                  IF coll[c].i + 1 = coll[c].numTrees
                  THEN [@ EXCEPT !.pc = "idle", !.numTrees = 0, !.i = 0]
                  ELSE [@ EXCEPT !.pc = "walking", !.i = @ + 1]]
    /\ UNCHANGED aborted
    /\ RunFrame

(***************************************************************************)
(* MallocTreeRegistry::~MallocTreeRegistry, run for the global g_registry  *)
(* when the process exits, while the other threads may still be running.   *)
(* It is split at the store to m_bShutdownStarted, at each fetch_sub on    *)
(* m_nMallocTrees and at each delete.                                      *)
(***************************************************************************)
TeardownFrame ==
    UNCHANGED <<mainLimits, hookActive, disablers, tree, scopes,
                bytesBeforeInit, nullReturns, thr, slots, snap, sig, coll>>

\* m_bShutdownStarted = true
TeardownStart ==
    /\ ~aborted
    /\ teardown.pc = "alive"
    /\ teardown' = [teardown EXCEPT !.started = TRUE, !.pc = "fetch_sub",
                                    !.registered = nMallocTrees]
    /\ UNCHANGED <<nMallocTrees, aborted>>
    /\ TeardownFrame

\* toDelete = m_nMallocTrees.fetch_sub(1), and the test of the while loop;
\* the unsigned counter wraps when it was zero
TeardownFetchSub ==
    /\ ~aborted
    /\ teardown.pc = "fetch_sub"
    /\ nMallocTrees' = (nMallocTrees + SizeTWrap - 1) % SizeTWrap
    /\ teardown' = [teardown EXCEPT
                      !.toDelete = nMallocTrees,
                      !.pc = IF nMallocTrees > 0 THEN "delete" ELSE "last"]
    /\ UNCHANGED aborted
    /\ TeardownFrame

\* delete m_pMallocTreeRegistry[toDelete]: toDelete is the count before the
\* decrement, one above the last index handed out; an index outside the
\* array reads whatever lies behind it, and deleting that either does
\* nothing or crashes
TeardownDelete ==
    /\ ~aborted
    /\ teardown.pc = "delete"
    /\ IF teardown.toDelete \in DOMAIN slots
       THEN /\ teardown' = [teardown EXCEPT
                              !.deleted = Append(@, teardown.toDelete),
                              !.pc = "fetch_sub"]
            /\ aborted' = aborted
       ELSE \/ /\ teardown' = [teardown EXCEPT
                                 !.deleted = Append(@, teardown.toDelete),
                                 !.pc = "fetch_sub"]
               /\ aborted' = aborted
            \/ /\ teardown' = [teardown EXCEPT
                                 !.deleted = Append(@, teardown.toDelete),
                                 !.pc = "crashed"]
               /\ aborted' = TRUE
    /\ UNCHANGED nMallocTrees
    /\ TeardownFrame

\* delete m_pMallocTreeRegistry[0]
TeardownLast ==
    /\ ~aborted
    /\ teardown.pc = "last"
    /\ teardown' = [teardown EXCEPT !.deleted = Append(@, 0), !.pc = "done"]
    /\ UNCHANGED <<nMallocTrees, aborted>>
    /\ TeardownFrame

(***************************************************************************)
(* MallocTagEngine::collect_stats(format, output_options) called by the    *)
(* thread once it has its tree.  The whole call runs under a HookDisabler; *)
(* the blocks it allocates for the output are added to                     *)
(* g_bytes_allocated_before_init by the interposer.                        *)
(***************************************************************************)
MallocTagEngine_collect_stats ==
    /\ ~aborted
    /\ is_ready(tree)
    /\ bytesBeforeInit + StatsFootprint <= MaxStatsBytes
    /\ tree' = collect_stats_recursively(tree)
    /\ bytesBeforeInit' = (bytesBeforeInit + StatsFootprint) % SizeTWrap
    /\ UNCHANGED <<nMallocTrees, mainLimits, hookActive, disablers, scopes,
                   nullReturns, aborted>>
    /\ UNCHANGED envVars

(***************************************************************************)
(* Snapshots: the interval, the clock, the environment and                 *)
(* MallocTagEngine::write_snapshot_if_needed.                              *)
(***************************************************************************)
\* MallocTagEngine::set_snapshot_interval
MallocTagEngine_set_snapshot_interval(secs) ==
    /\ ~aborted
    /\ snap.intervalSec # secs
    /\ snap' = [snap EXCEPT !.intervalSec = secs]
    /\ UNCHANGED <<nMallocTrees, mainLimits, hookActive, disablers, tree, scopes,
                   bytesBeforeInit, nullReturns, aborted, thr, slots, sig, teardown, coll>>

\* a second of wall time passes
Tick ==
    /\ ~aborted
    /\ snap.now < ClockStart + MaxClockTicks
    /\ snap' = [snap EXCEPT !.now = @ + 1]
    /\ UNCHANGED <<nMallocTrees, mainLimits, hookActive, disablers, tree, scopes,
                   bytesBeforeInit, nullReturns, aborted, thr, slots, sig, teardown, coll>>

\* the application sets MTAG_STATS_OUTPUT_JSON or MTAG_STATS_OUTPUT_GRAPHVIZ_DOT
\* to the name of the first snapshot file of that format
Setenv(ext) ==
    /\ ~aborted
    /\ snap' = IF ext = "json"
               THEN [snap EXCEPT !.jsonEnv = SnapshotFile("snapshot", 0, "json")]
               ELSE [snap EXCEPT !.dotEnv = SnapshotFile("snapshot", 0, "dot")]
    /\ snap' # snap
    /\ UNCHANGED <<nMallocTrees, mainLimits, hookActive, disablers, tree, scopes,
                   bytesBeforeInit, nullReturns, aborted, thr, slots, sig, teardown, coll>>

\* the application is started with MTAG_SNAPSHOT_INTERVAL_SEC=n
SetenvInterval(n) ==
    /\ ~aborted
    /\ snap.intervalEnv # n
    /\ snap' = [snap EXCEPT !.intervalEnv = n]
    /\ UNCHANGED <<nMallocTrees, mainLimits, hookActive, disablers, tree, scopes,
                   bytesBeforeInit, nullReturns, aborted, thr, slots, sig, teardown, coll>>

\* __internal_write_stats(format, "", ""): the path comes from the
\* environment; the file opens when the path is not empty
stats_file_is_open(fpath) == fpath # Unset

\* __internal_write_stats(format, fullpath, output_options) for format json
\* or dot: the path opened, whether it opened and the document written.
\* std::ofstream truncates the file it opens.
internal_write_stats(format, fullpath, jsonEnv, dotEnv) ==
    LET fpath == IF fullpath = Unset
                 THEN (IF format = "json" THEN jsonEnv ELSE dotEnv)
                 ELSE fullpath
    IN [bwritten |-> stats_file_is_open(fpath), fpath |-> fpath, doc |-> format]

\* the disk after the writes ws, made in that order
RECURSIVE disk_after(_, _)
disk_after(disk, ws) ==
    IF ws = <<>> THEN disk
    ELSE disk_after(IF Head(ws).bwritten
                    THEN [disk EXCEPT ![Head(ws).fpath] = Head(ws).doc]
                    ELSE disk,
                    Tail(ws))

\* MallocTagEngine::write_stats(format, fullpath, output_options): the
\* writes made, the files written and the value returned (for
\* MTAG_OUTPUT_FORMAT_ALL: bwritten = json; bwritten &= dot)
write_stats(format, fullpath, jsonEnv, dotEnv) ==
    LET ws == IF format = "ALL"
              THEN <<internal_write_stats("json", fullpath, jsonEnv, dotEnv),
                     internal_write_stats("dot", fullpath, jsonEnv, dotEnv)>>
              ELSE <<internal_write_stats(format, fullpath, jsonEnv, dotEnv)>>
    IN [writes |-> ws,
        files |-> {ws[i].fpath : i \in {j \in DOMAIN ws : ws[j].bwritten}},
        collections |-> Cardinality({j \in DOMAIN ws : ws[j].bwritten}),
        bwritten |-> \A i \in DOMAIN ws : ws[i].bwritten]

\* MallocTagEngine::write_stats called by the application.  Each file
\* written holds a collect_stats, which recomputes the totals of the tree
\* and allocates under the HookDisabler of write_stats.
write_stats_effect(format, fullpath) ==
    LET w == write_stats(format, fullpath, snap.jsonEnv, snap.dotEnv) IN
    /\ snap' = [snap EXCEPT
                  !.disk = disk_after(@, w.writes),
                  !.statsRet = IF w.bwritten THEN "true" ELSE "false"]
    /\ tree' = IF w.collections > 0 /\ is_ready(tree)
               THEN collect_stats_recursively(tree)
               ELSE tree
    /\ bytesBeforeInit' =
           (bytesBeforeInit + w.collections * StatsFootprint) % SizeTWrap

MallocTagEngine_write_stats(format, fullpath) ==
    /\ ~aborted
    /\ bytesBeforeInit < MaxStatsBytes
    /\ write_stats_effect(format, fullpath)
    /\ UNCHANGED <<nMallocTrees, mainLimits, hookActive, disablers, scopes,
                   nullReturns, aborted, thr, slots, sig, teardown, coll>>

\* the comparison that sends write_snapshot_if_needed to write_stats
snapshot_is_due(now, last, interval) == now - last > interval

\* MallocTagEngine::write_snapshot_if_needed().  Each file written holds a
\* collect_stats, which recomputes the totals of the tree and allocates
\* under the HookDisabler of write_stats.
MallocTagEngine_write_snapshot_if_needed ==
    /\ ~aborted
    /\ Len(snap.written) < MaxSnapshots
    /\ IF snap.intervalSec = 0
       THEN /\ snap' = [snap EXCEPT !.lastRet = "false"]
            /\ UNCHANGED <<tree, bytesBeforeInit>>
       ELSE IF snapshot_is_due(snap.now, snap.lastTimestampSec, snap.intervalSec)
       THEN LET w == write_stats("ALL", Unset, snap.jsonEnv, snap.dotEnv) IN
            /\ snap' = [snap EXCEPT
                          !.lastTimestampSec = snap.now,
                          !.disk = disk_after(@, w.writes),
                          !.written = IF w.files = {} THEN @
                                      ELSE Append(@, [at |-> snap.now,
                                                      files |-> w.files]),
                          !.lastRet = IF w.bwritten THEN "true" ELSE "false"]
            /\ tree' = IF w.files # {} /\ is_ready(tree)
                       THEN collect_stats_recursively(tree)
                       ELSE tree
            /\ bytesBeforeInit' =
                   (bytesBeforeInit + w.collections * StatsFootprint) % SizeTWrap
       ELSE /\ snap' = [snap EXCEPT !.lastRet = "false"]
            /\ UNCHANGED <<tree, bytesBeforeInit>>
    /\ UNCHANGED <<nMallocTrees, mainLimits, hookActive, disablers, scopes,
                   nullReturns, aborted, thr, slots, sig, teardown, coll>>

(***************************************************************************)
(* MallocTagEngine::write_snapshot_if_needed() called by several threads,  *)
(* split between the load of g_snapshot_last_timestamp_sec in the          *)
(* comparison and the store that follows it.                               *)
(***************************************************************************)
SnapshotFrame ==
    UNCHANGED <<nMallocTrees, mainLimits, hookActive, disablers, scopes,
                nullReturns, aborted, thr, slots, sig, teardown>>

\* up to the comparison: gettimeofday, g_snapshot_last_timestamp_sec.load()
SnapshotCheck(c) ==
    /\ ~aborted
    /\ coll[c].pc = "idle"
    /\ Len(snap.written) < MaxSnapshots
    /\ IF /\ snap.intervalSec # 0
          /\ snapshot_is_due(snap.now, snap.lastTimestampSec, snap.intervalSec)
       THEN /\ coll' = [coll EXCEPT ![c] = [@ EXCEPT !.pc = "due", !.now = snap.now]]
            /\ UNCHANGED snap
       ELSE /\ snap' = [snap EXCEPT !.lastRet = "false"]
            /\ UNCHANGED coll
    /\ UNCHANGED <<tree, bytesBeforeInit>>
    /\ SnapshotFrame

\* g_snapshot_last_timestamp_sec = now_tv.tv_sec; return write_stats();
\* the snapshot is dated with the now_tv of the call
SnapshotWrite(c) ==
    /\ ~aborted
    /\ coll[c].pc = "due"
    /\ LET w == write_stats("ALL", Unset, snap.jsonEnv, snap.dotEnv) IN
       /\ snap' = [snap EXCEPT
                     !.lastTimestampSec = coll[c].now,
                     !.disk = disk_after(@, w.writes),
                     !.written = IF w.files = {} THEN @
                                 ELSE Append(@, [at |-> coll[c].now,
                                                 files |-> w.files]),
                     !.lastRet = IF w.bwritten THEN "true" ELSE "false"]
       /\ tree' = IF w.files # {} /\ is_ready(tree)
                  THEN collect_stats_recursively(tree)
                  ELSE tree
       /\ bytesBeforeInit' =
              (bytesBeforeInit + w.collections * StatsFootprint) % SizeTWrap
    /\ coll' = [coll EXCEPT ![c] = [@ EXCEPT !.pc = "idle", !.now = 0]]
    /\ SnapshotFrame

(***************************************************************************)
(* A signal handler that calls MallocTagEngine::write_stats(), as the       *)
(* README proposes.  The handler runs on the thread it interrupts, and the *)
(* thread goes on only when the handler has returned.  push_new_node and   *)
(* pop_last_node are split at the std::lock_guard on m_lockTreeStructure:  *)
(* the lock is taken in one step, the body runs and the lock is released   *)
(* in the next, and the signal may arrive in between.                      *)
(***************************************************************************)
SignalFrame ==
    UNCHANGED <<nMallocTrees, mainLimits, hookActive, disablers, nullReturns,
                thr, slots, teardown, coll>>

ThreadRuns == ~aborted /\ sig.handler = "none"

\* MallocTagScope::MallocTagScope up to the lock_guard of push_new_node, on a
\* thread that has its tree and is below the level cap
PushLock(tag_name) ==
    /\ ThreadRuns
    /\ sig.pc = "run"
    /\ hookActive
    /\ is_ready(tree)
    /\ tree.node[tree.current].treeLevel # tree.nMaxTreeLevels
    /\ lock_is_free(sig.lock)
    /\ sig' = [sig EXCEPT !.lock = "thread", !.pc = "push_locked", !.tag = tag_name]
    /\ UNCHANGED <<tree, scopes, bytesBeforeInit, aborted, snap>>
    /\ SignalFrame

\* the rest of push_new_node and of the constructor; the lock_guard is
\* released on return
PushUnlock ==
    /\ ThreadRuns
    /\ sig.pc = "push_locked"
    /\ LET p == push_new_node(tree, sig.tag) IN
       /\ tree' = p.tree
       /\ scopes' = Append(scopes,
              [bLastPushWasSuccessful |-> p.ret, tag |-> sig.tag,
               tried |-> TRUE, at |-> tree.current, node |-> p.tree.current,
               outcome |-> push_outcome(tree, sig.tag),
               allocsBefore |-> AllocsCharged(tree),
               window |-> Len(disablers)])
    /\ sig' = [sig EXCEPT !.lock = "free", !.pc = "run", !.tag = <<>>]
    /\ UNCHANGED <<bytesBeforeInit, aborted, snap>>
    /\ SignalFrame

\* MallocTagScope::~MallocTagScope of a scope whose push succeeded, up to
\* the lock_guard of pop_last_node
PopLock ==
    /\ ThreadRuns
    /\ sig.pc = "run"
    /\ hookActive
    /\ scopes # <<>>
    /\ dtor_pops(is_ready(tree), scopes[Len(scopes)].bLastPushWasSuccessful)
    /\ lock_is_free(sig.lock)
    /\ sig' = [sig EXCEPT !.lock = "thread", !.pc = "pop_locked"]
    /\ UNCHANGED <<tree, scopes, bytesBeforeInit, aborted, snap>>
    /\ SignalFrame

\* the rest of pop_last_node and of the destructor
PopUnlock ==
    /\ ThreadRuns
    /\ sig.pc = "pop_locked"
    /\ LET atRoot == tree.node[tree.current].parent = NULL IN
       /\ tree' = IF atRoot THEN tree ELSE pop_last_node(tree)
       /\ aborted' = atRoot
    /\ scopes' = SubSeq(scopes, 1, Len(scopes) - 1)
    /\ sig' = [sig EXCEPT !.lock = "free", !.pc = "run"]
    /\ UNCHANGED <<bytesBeforeInit, snap>>
    /\ SignalFrame

\* the signal is delivered to the thread, wherever it stands
SignalArrives ==
    /\ ThreadRuns
    /\ bytesBeforeInit < MaxStatsBytes
    /\ sig' = [sig EXCEPT !.handler = "entered"]
    /\ UNCHANGED <<tree, scopes, bytesBeforeInit, aborted, snap>>
    /\ SignalFrame

\* the handler: MallocTagEngine::write_stats().  Each file that opens gets a
\* collect_stats, and MallocTree::collect_stats_recursively starts with a
\* lock_guard on m_lockTreeStructure.  When the interrupted thread holds
\* that std::mutex the handler locks a mutex its own thread owns: it waits
\* for ever, or lock() throws and the process is terminated.
HandlerRuns ==
    /\ ~aborted
    /\ sig.handler = "entered"
    /\ LET w == write_stats("ALL", Unset, snap.jsonEnv, snap.dotEnv) IN
       IF w.collections > 0 /\ is_ready(tree) /\ sig.lock = "thread"
       THEN /\ \/ sig' = [sig EXCEPT !.handler = "blocked"] /\ aborted' = aborted
               \/ sig' = [sig EXCEPT !.handler = "terminated"] /\ aborted' = TRUE
            /\ UNCHANGED <<tree, bytesBeforeInit, snap>>
       ELSE /\ write_stats_effect("ALL", Unset)
            /\ sig' = [sig EXCEPT !.handler = "none"]
            /\ aborted' = aborted
    /\ UNCHANGED scopes
    /\ SignalFrame

(***************************************************************************)
(* Other threads that call MallocTagEngine::write_stats(ALL) while the     *)
(* thread goes on: the JSON document is collected first, the DOT document  *)
(* afterwards, each by a MallocTree::collect_stats_recursively of the      *)
(* thread's tree that holds m_lockTreeStructure from its first statement   *)
(* to its return.  The HookDisabler of write_stats switches off the hook   *)
(* of the calling thread only.  Both output files open.                    *)
(***************************************************************************)
CollectFrame ==
    UNCHANGED <<nMallocTrees, mainLimits, hookActive, disablers, scopes,
                nullReturns, aborted, thr, slots, snap, teardown>>

\* what the JSON and the DOT encoders print of a tree: the counters of the
\* tree and of each of its nodes
encode_stats(t) ==
    [nPushNodeFailures |-> t.nPushNodeFailures,
     nTreeNodesInUse |-> t.nTreeNodesInUse,
     nodes |-> [s \in InUse(t) |->
                  [scopeName |-> t.node[s].scopeName,
                   nBytesTotal |-> t.node[s].bytesTotal,
                   nBytesSelf |-> t.node[s].bytesSelf,
                   nWeightTotal |-> t.node[s].weightTotal,
                   nWeightSelf |-> t.node[s].weightSelf,
                   nCalls |-> t.node[s].allocationsSelf]]]

\* the format write_stats(ALL) collects next
next_format(col) ==
    IF col.pc = "idle" THEN "json" ELSE "dot"

\* collect_stats_recursively: the lock_guard
CollectLock(c) ==
    /\ ~aborted
    /\ coll[c].pc \in {"idle", "between"}
    /\ is_ready(tree)
    /\ coll[c].pc = "idle" => bytesBeforeInit + 2 * StatsFootprint <= CollectBytesCap
    /\ lock_is_free(sig.lock)
    /\ sig' = [sig EXCEPT !.lock = c]
    /\ coll' = [coll EXCEPT ![c] =
                  [@ EXCEPT !.pc = "locked", !.format = next_format(coll[c]),
                            !.json = IF coll[c].pc = "idle" THEN <<>> ELSE @,
                            !.dot = <<>>]]
    /\ UNCHANGED <<tree, bytesBeforeInit>>
    /\ CollectFrame

\* STEP1 and STEP2: the totals and the weights of the whole tree
CollectCompute(c) ==
    /\ ~aborted
    /\ coll[c].pc = "locked"
    /\ tree' = collect_stats_recursively(tree)
    /\ coll' = [coll EXCEPT ![c].pc = "computed"]
    /\ UNCHANGED <<sig, bytesBeforeInit>>
    /\ CollectFrame

\* the last recursive walk that encodes the statistics, and the return,
\* which releases the lock; the memory of the document is booked by the
\* interposer as allocated before init
CollectEncode(c) ==
    /\ ~aborted
    /\ coll[c].pc = "computed"
    /\ coll' = [coll EXCEPT ![c] =
                  IF coll[c].format = "json"
                  THEN [@ EXCEPT !.pc = "between", !.json = <<encode_stats(tree)>>]
                  ELSE [@ EXCEPT !.pc = "idle", !.format = "none",
                                 !.dot = <<encode_stats(tree)>>]]
    /\ sig' = [sig EXCEPT !.lock = "free"]
    /\ bytesBeforeInit' = (bytesBeforeInit + StatsFootprint) % SizeTWrap
    /\ UNCHANGED tree
    /\ CollectFrame

(***************************************************************************)
(* Spec: the thread that initialises the engine and the MallocTagScope     *)
(* objects it opens and closes, strictly nested.                           *)
(***************************************************************************)
Next ==
    \/ \E mn \in TreeNodesArgs, ml \in TreeLevelsArgs : MallocTagEngine_init(mn, ml)
    \/ \E tag \in Tags : MallocTagScope_ctor(tag, FALSE)
    \/ MallocTagScope_dtor

Spec == Init /\ [][Next]_vars

(***************************************************************************)
(* SpecCharge: the same thread, with fewer scopes, and the allocations it  *)
(* makes once its tree exists.                                             *)
(***************************************************************************)
NextCharge ==
    \/ \E mn \in TreeNodesArgs, ml \in TreeLevelsArgs : MallocTagEngine_init(mn, ml)
    \/ /\ ScopesConstructed(tree) < ChargeScopeOps
       /\ \E tag \in Tags : MallocTagScope_ctor(tag, FALSE)
    \/ MallocTagScope_dtor
    \/ /\ is_ready(tree)
       /\ AllocsCharged(tree) < ChargeAllocOps
       /\ \E entry \in AllocEntryPoints, r \in Sizes : InterceptedAlloc(entry, r)

SpecCharge == Init /\ [][NextCharge]_vars

(***************************************************************************)
(* SpecHook: any thread of the process and everything it can do with the   *)
(* interposer: allocations before the engine is initialised, inside a      *)
(* HookDisabler, on a thread whose tree is created lazily or cannot be     *)
(* created because the registry is full, allocations that fail, and frees. *)
(***************************************************************************)
NextHook ==
    \/ MallocTagEngine_init(MaxTreeNodesArg - 1, 1)
    \/ OtherThreadInit(MaxTreeNodesArg - 1, 1)
    \/ OtherThreadRegisters
    \/ /\ ScopesConstructed(tree) < HookScopeOps
       /\ \E tag \in HookTags, garbage \in BOOLEAN : MallocTagScope_ctor(tag, garbage)
    \/ MallocTagScope_dtor
    \/ /\ AllocsCharged(tree) < HookAllocOps
       /\ \E entry \in AllocEntryPoints, r \in {NULL} \cup Sizes : InterceptedAlloc(entry, r)
    \/ \E n \in 0..MaxUsableSize : InterceptedFree(n)
    \/ HookDisabler_ctor
    \/ HookDisabler_dtor

SpecHook == Init /\ [][NextHook]_vars

(***************************************************************************)
(* SpecScope: scopes constructed at any time, before the engine is         *)
(* initialised and inside a HookDisabler included.  The scopes and the     *)
(* HookDisabler objects are automatic objects: they are destroyed in the   *)
(* reverse order of their construction.                                    *)
(***************************************************************************)
NextScope ==
    \/ MallocTagEngine_init(MaxTreeNodesArg - 1, MaxTreeLevelsArg)
    \/ OtherThreadInit(MaxTreeNodesArg - 1, MaxTreeLevelsArg)
    \/ /\ ScopesConstructed(tree) < HookScopeOps
       /\ \E tag \in HookTags, garbage \in BOOLEAN :
             MallocTagScope_ctor_anywhere(tag, garbage)
    \/ /\ scopes # <<>>
       /\ scopes[Len(scopes)].window = Len(disablers)
       /\ MallocTagScope_dtor_anywhere
    \/ /\ Len(disablers) < MaxDisablerDepth
       /\ HookDisabler_ctor
    \/ /\ IF scopes = <<>> THEN TRUE
          ELSE scopes[Len(scopes)].window < Len(disablers)
       /\ HookDisabler_dtor

SpecScope == Init /\ [][NextScope]_vars

(***************************************************************************)
(* SpecSignal: the thread that initialises the engine and opens and        *)
(* closes scopes, with a signal whose handler writes the statistics.       *)
(***************************************************************************)
NextSignal ==
    \/ ThreadRuns /\ sig.pc = "run"
         /\ MallocTagEngine_init(MaxTreeNodesArg - 1, MaxTreeLevelsArg)
    \/ ThreadRuns /\ sig.pc = "run" /\ (\E ext \in {"json", "dot"} : Setenv(ext))
    \/ /\ ScopesConstructed(tree) < ChargeScopeOps
       /\ \E tag \in HookTags : PushLock(tag)
    \/ PushUnlock
    \/ /\ ThreadRuns /\ sig.pc = "run"
       /\ ScopesConstructed(tree) < ChargeScopeOps
       /\ is_ready(tree)
       /\ tree.node[tree.current].treeLevel = tree.nMaxTreeLevels
       /\ \E tag \in HookTags : MallocTagScope_ctor(tag, FALSE)
    \/ PopLock
    \/ PopUnlock
    \/ /\ ThreadRuns /\ sig.pc = "run"
       /\ scopes # <<>>
       /\ ~scopes[Len(scopes)].bLastPushWasSuccessful
       /\ MallocTagScope_dtor
    \/ /\ ThreadRuns /\ sig.pc = "run"
       /\ is_ready(tree)
       /\ AllocsCharged(tree) < HookAllocOps
       /\ \E r \in Sizes : InterceptedAlloc("malloc", r)
    \/ SignalArrives
    \/ HandlerRuns

SpecSignal == Init /\ [][NextSignal]_vars

(***************************************************************************)
(* SpecCollect: the thread that initialises the engine, opens and closes   *)
(* scopes and allocates, and the threads that write the statistics of its  *)
(* tree meanwhile.                                                         *)
(***************************************************************************)
NextCollect ==
    \/ MallocTagEngine_init(MaxTreeNodesArg - 1, MaxTreeLevelsArg)
    \/ /\ ScopesConstructed(tree) < StatsScopeOps
       /\ \E tag \in HookTags : PushLock(tag)
    \/ PushUnlock
    \/ PopLock
    \/ PopUnlock
    \/ /\ is_ready(tree)
       /\ AllocsCharged(tree) < HookAllocOps
       /\ InterceptedAlloc("malloc", MaxUsableSize)
    \/ \E c \in Collectors :
          \/ CollectLock(c)
          \/ CollectCompute(c)
          \/ CollectEncode(c)

SpecCollect == Init /\ [][NextCollect]_vars

(***************************************************************************)
(* SpecSnapRace: the application initialises the engine with an interval   *)
(* and several of its threads call write_snapshot_if_needed as time        *)
(* passes.                                                                 *)
(***************************************************************************)
NextSnapRace ==
    \/ \E secs \in 1..MaxSnapshotInterval :
          MallocTagEngine_init_with(MaxTreeNodesArg - 1, 1, secs)
    \/ Tick
    \/ \E ext \in {"json", "dot"} : Setenv(ext)
    \/ \E c \in Collectors :
          \/ SnapshotCheck(c)
          \/ SnapshotWrite(c)

SpecSnapRace == Init /\ [][NextSnapRace]_vars

(***************************************************************************)
(* SpecStats: the thread that initialises the engine, its scopes,          *)
(* allocations and frees, and the collections of statistics it asks for.   *)
(***************************************************************************)
NextStats ==
    \/ MallocTagEngine_init(MaxTreeNodesArg - 1, MaxTreeLevelsArg)
    \/ /\ ScopesConstructed(tree) < StatsScopeOps
       /\ \E tag \in HookTags : MallocTagScope_ctor(tag, FALSE)
    \/ MallocTagScope_dtor
    \/ /\ is_ready(tree)
       /\ \E r \in Sizes : InterceptedAlloc("malloc", r)
    \/ /\ is_ready(tree)
       /\ \E n \in 0..MaxUsableSize : InterceptedFree(n)
    \/ MallocTagEngine_collect_stats

SpecStats == Init /\ [][NextStats]_vars

(***************************************************************************)
(* SpecThreads: the threads of the process calling init and making tracked *)
(* operations in any interleaving.                                         *)
(***************************************************************************)
NextThreads ==
    \E t \in Threads :
        \/ InitCall(t)
        \/ InitFetchAdd(t)
        \/ \E mn \in TreeNodesArgs, ml \in TreeLevelsArgs : InitStore(t, mn, ml)
        \/ TrackedOp(t)
        \/ SecStore(t)

SpecThreads == Init /\ [][NextThreads]_vars

(***************************************************************************)
(* SpecShutdown: the threads register their trees while the registry is    *)
(* torn down.                                                              *)
(***************************************************************************)
NextShutdown ==
    \/ \E t \in Threads :
          \/ InitCall(t)
          \/ InitFetchAdd(t)
          \/ InitStore(t, MaxTreeNodesArg, MaxTreeLevelsArg)
          \/ TrackedOp(t)
          \/ SecStore(t)
    \/ TeardownStart
    \/ TeardownFetchSub
    \/ TeardownDelete
    \/ TeardownLast

SpecShutdown == Init /\ [][NextShutdown]_vars

(***************************************************************************)
(* SpecRun: the threads register their trees, push and pop, while other    *)
(* threads collect the statistics of the registry.                         *)
(***************************************************************************)
NextRun ==
    \/ \E t \in Threads :
          \/ InitCall(t)
          \/ InitFetchAdd(t)
          \/ InitStore(t, MaxTreeNodesArg, MaxTreeLevelsArg)
          \/ TrackedOp(t)
          \/ SecStore(t)
          \/ OwnerLock(t)
          \/ OwnerUnlock(t)
    \/ \E c \in Collectors :
          \/ RegistryCollectBegin(c)
          \/ RegistryCollectTree(c)
          \/ RegistryCollectNext(c)

SpecRun == Init /\ [][NextRun]_vars

(***************************************************************************)
(* SpecSnap: the application initialises the engine, sets the interval and *)
(* the environment, and calls write_snapshot_if_needed as time passes.     *)
(***************************************************************************)
NextSnap ==
    \/ \E secs \in 0..MaxSnapshotInterval :
          MallocTagEngine_init_with(MaxTreeNodesArg - 1, 1, secs)
    \/ \E secs \in 0..MaxSnapshotInterval :
          MallocTagEngine_set_snapshot_interval(secs)
    \/ Tick
    \/ \E ext \in {"json", "dot"} : Setenv(ext)
    \/ \E n \in 0..MaxSnapshotInterval : SetenvInterval(n)
    \/ \E format \in {"json", "dot", "ALL"}, fullpath \in {Unset, StatsPath} :
          MallocTagEngine_write_stats(format, fullpath)
    \/ MallocTagEngine_write_snapshot_if_needed

SpecSnap == Init /\ [][NextSnap]_vars

(***************************************************************************)
(* Vocabulary of the properties                                            *)
(***************************************************************************)
Range(q) == {q[i] : i \in 1..Len(q)}

\* the nodes linked into the tree below and including n
RECURSIVE Subtree(_, _)
Subtree(t, n) == {n} \cup UNION {Subtree(t, c) : c \in Range(t.node[n].children)}

Linked(t) == Subtree(t, t.root)

\* the live scopes whose push succeeded, outermost first
OpenPushed(q) == {i \in 1..Len(q) : q[i].tried /\ q[i].bLastPushWasSuccessful}

Cursor(t) == t.node[t.current]

\* a push of tag would have to take a node from the pool
NeedsNewNode(t, tag) ==
    /\ Cursor(t).treeLevel # t.nMaxTreeLevels
    /\ get_child_by_name(t.node, t.current, tag) = NULL

\* C2: after any strictly nested sequence of MallocTagScope constructions
\* and destructions, whichever pushes failed, the level of the cursor is the
\* number of live scopes whose push succeeded, and the cursor is the root
\* when no such scope is live.
C2_CursorLevel ==
    is_ready(tree) =>
        /\ Cursor(tree).treeLevel = Cardinality(OpenPushed(scopes))
        /\ OpenPushed(scopes) = {} => tree.current = tree.root

\* a scope whose push succeeded is live inside one whose push failed, after
\* other scopes were closed
C2_Witness ==
    /\ Len(scopes) = 2
    /\ scopes[1].tried /\ ~scopes[1].bLastPushWasSuccessful
    /\ scopes[2].tried /\ scopes[2].bLastPushWasSuccessful
    /\ Cursor(tree).treeLevel = 1
    /\ \E s \in InUse(tree) : tree.node[s].timesEnteredAndExited > 0

\* C4: every step adds one to push_failures exactly when it constructs a
\* MallocTagScope whose push failed; successful pushes and pops leave the
\* counter alone.
C4_PushFailures ==
    [][tree'.nPushNodeFailures =
          tree.nPushNodeFailures
            + (IF Len(scopes') > Len(scopes)
                  /\ scopes'[Len(scopes')].tried
                  /\ ~scopes'[Len(scopes')].bLastPushWasSuccessful
               THEN 1 ELSE 0)]_vars

\* two pushes have failed inside a scope whose push succeeded, and the two
\* failed scopes were destroyed
C4_Witness ==
    /\ tree.nPushNodeFailures = 2
    /\ Len(scopes) = 1
    /\ scopes[1].tried /\ scopes[1].bLastPushWasSuccessful

\* C5: no two children of one node carry the same stored name, whatever the
\* length of the names pushed.
C5_SiblingNamesUnique ==
    is_ready(tree) =>
        \A s \in InUse(tree) :
            LET kids == tree.node[s].children IN
            \A i, j \in 1..Len(kids) :
                i # j => tree.node[kids[i]].scopeName # tree.node[kids[j]].scopeName

\* C6: no node has more than MTAG_MAX_CHILDREN_PER_NODE children, no node
\* lies deeper than max_tree_levels and the tree never holds more than
\* max_tree_nodes nodes.
C6_Caps ==
    is_ready(tree) =>
        /\ \A s \in Linked(tree) :
              /\ Len(tree.node[s].children) <= MTAG_MAX_CHILDREN_PER_NODE
              /\ tree.node[s].treeLevel <= tree.nMaxTreeLevels
        /\ Cardinality(Linked(tree)) <= tree.nMaxTreeNodes

\* the three caps are reached together and a push beyond them has failed
C6_Witness ==
    /\ is_ready(tree)
    /\ Len(tree.node[tree.root].children) = MTAG_MAX_CHILDREN_PER_NODE
    /\ Cardinality(Linked(tree)) = tree.nMaxTreeNodes
    /\ \E s \in Linked(tree) : tree.node[s].treeLevel = tree.nMaxTreeLevels
    /\ tree.nPushNodeFailures > 0

\* C7: nodes_in_use is the number of nodes linked into the tree, the root
\* included, and a push that needs a new node fails for pool exhaustion,
\* changing nothing but push_failures, exactly when nodes_in_use equals
\* max_tree_nodes.
C7_NodesInUse ==
    is_ready(tree) =>
        /\ tree.nTreeNodesInUse = Cardinality(Linked(tree))
        /\ \A tag \in Tags :
              NeedsNewNode(tree, tag) =>
                  LET p == push_new_node(tree, tag)
                      poolFailure ==
                          /\ fmpool_get(tree) = NULL
                          /\ ~p.ret
                          /\ p.tree = [tree EXCEPT !.nPushNodeFailures = @ + 1]
                  IN poolFailure <=> (tree.nTreeNodesInUse = tree.nMaxTreeNodes)

\* the pool is exhausted after a push has failed at the sibling cap and a
\* later push has failed for pool exhaustion
C7_Witness ==
    /\ is_ready(tree)
    /\ tree.nTreeNodesInUse = tree.nMaxTreeNodes
    /\ tree.nPushNodeFailures >= 2
    /\ scopes # <<>>
    /\ scopes[Len(scopes)].outcome = "pool"

\* the innermost live scope
Top == scopes[Len(scopes)]

\* an allocation is intercepted on a thread whose tree tracks it
TrackedAlloc(entry, r) ==
    /\ hookActive
    /\ is_ready(tree)
    /\ InterceptedAlloc(entry, r)

\* the node of the innermost live scope whose push succeeded, the root when
\* there is none
DeepestPushedNode ==
    IF OpenPushed(scopes) = {} THEN tree.root
    ELSE LET i == CHOOSE k \in OpenPushed(scopes) :
                      \A j \in OpenPushed(scopes) : j <= k
         IN scopes[i].node

\* the step adds r bytes (in size_t arithmetic) and one call to node s and leaves every other node
\* of the tree as it was
ChargedOnlyTo(s, r) ==
    /\ tree'.node[s].bytesSelf = (tree.node[s].bytesSelf + r) % SizeTWrap
    /\ \E p \in Primitives :
          tree'.node[s].allocationsSelf =
              [tree.node[s].allocationsSelf EXCEPT ![p] = @ + 1]
    /\ \A o \in Slots \ {s} : tree'.node[o] = tree.node[o]

\* C1: an allocation made directly inside a live MallocTagScope whose push
\* succeeded, and whose tag is shorter than the scope-name limit, is charged
\* to the node that is named exactly like the tag and whose parent is the
\* node the cursor was on when the scope was constructed.
C1_ChargeLocality ==
    [][\A entry \in AllocEntryPoints, r \in Sizes :
          (/\ TrackedAlloc(entry, r)
           /\ scopes # <<>>
           /\ Top.tried /\ Top.bLastPushWasSuccessful
           /\ Len(Top.tag) < MTAG_MAX_SCOPENAME_LEN)
          => \E s \in InUse(tree) :
                /\ ChargedOnlyTo(s, r)
                /\ tree.node[s].scopeName = Top.tag
                /\ tree.node[s].parent = Top.at]_vars

\* C3: an allocation made inside a live MallocTagScope whose push failed is
\* charged to the node of the innermost enclosing scope whose push succeeded,
\* or to the root when there is none, and to no other node.
C3_FailedScopeCharge ==
    [][\A entry \in AllocEntryPoints, r \in Sizes :
          (/\ TrackedAlloc(entry, r)
           /\ scopes # <<>>
           /\ Top.tried /\ ~Top.bLastPushWasSuccessful)
          => /\ ChargedOnlyTo(DeepestPushedNode, r)
             /\ tree'.current = DeepestPushedNode]_vars

\* an allocation was made inside a scope whose push failed at the level cap,
\* itself inside a scope whose push succeeded
C3_Witness ==
    /\ Len(scopes) = 2
    /\ scopes[1].tried /\ scopes[1].bLastPushWasSuccessful
    /\ scopes[2].tried /\ ~scopes[2].bLastPushWasSuccessful
    /\ scopes[2].outcome = "level"
    /\ AllocsCharged(tree) > scopes[2].allocsBefore
    /\ tree.node[scopes[1].node].bytesSelf > 0

\* C8: an intercepted allocation that succeeds on a thread with a ready tree
\* adds the usable size of the block, in size_t arithmetic, to
\* bytes_self_alloc of the cursor node
\* and one to exactly one of its per-primitive counters (MALLOC for malloc,
\* REALLOC for realloc, CALLOC for calloc); no other node and no other
\* counter changes, bytes_self_freed included.
C8_AllocEffect ==
    [][\A entry \in AllocEntryPoints, r \in Sizes :
          TrackedAlloc(entry, r) =>
              \E p \in Primitives \ {MTAG_GLIBC_PRIMITIVE_FREE} :
                  /\ entry = "malloc" => p = MTAG_GLIBC_PRIMITIVE_MALLOC
                  /\ entry = "realloc" => p = MTAG_GLIBC_PRIMITIVE_REALLOC
                  /\ entry = "calloc" => p = MTAG_GLIBC_PRIMITIVE_CALLOC
                  /\ tree' =
                       [tree EXCEPT
                          !.node[tree.current].bytesSelf = (@ + r) % SizeTWrap,
                          !.node[tree.current].allocationsSelf[p] = @ + 1]]_vars

\* a realloc was charged to the node of a live scope, on a thread that has
\* also been through a HookDisabler
C8_Witness ==
    /\ is_ready(tree)
    /\ hookActive
    /\ tree.current # tree.root
    /\ Cursor(tree).allocationsSelf[MTAG_GLIBC_PRIMITIVE_REALLOC] = 1
    /\ Cursor(tree).bytesSelf = MaxUsableSize
    /\ bytesBeforeInit > TreeFootprint

\* C9: a free intercepted on a thread with a ready tree and the hook active
\* adds one to the FREE counter of the cursor node and the usable size of the
\* block to its bytes_self_freed, and changes bytes_self_alloc of no node.
C9_FreeEffect ==
    [][\A n \in 0..MaxUsableSize :
          (hookActive /\ is_ready(tree) /\ InterceptedFree(n)) =>
              /\ Cursor(tree').allocationsSelf[MTAG_GLIBC_PRIMITIVE_FREE] =
                     Cursor(tree).allocationsSelf[MTAG_GLIBC_PRIMITIVE_FREE] + 1
              /\ Cursor(tree').bytesSelfFreed = Cursor(tree).bytesSelfFreed + n
              /\ \A s \in Slots : tree'.node[s].bytesSelf = tree.node[s].bytesSelf]_vars

\* C10: when the raw allocator returns a null pointer the entry point hands
\* the null pointer back and changes nothing of the tracking state: no tree,
\* no counter, not the registry and not bytes_before_init.
C10_NullResult ==
    [][\A entry \in AllocEntryPoints :
          InterceptedAlloc(entry, NULL) =>
              /\ nullReturns' = nullReturns + 1
              /\ UNCHANGED <<nMallocTrees, mainLimits, hookActive, disablers,
                             tree, scopes, bytesBeforeInit>>]_vars

\* an allocation has returned a null pointer on a thread whose tree is ready
\* and already charged, with the hook active
C10_Witness ==
    /\ nullReturns > 0
    /\ hookActive
    /\ is_ready(tree)
    /\ AllocsCharged(tree) > 0
    /\ bytesBeforeInit > TreeFootprint

\* C11: once the registry has a main tree, bytes_before_init never changes
\* again: not through allocations made while the reentrancy flag of the
\* thread is disabled and not through allocations on a thread that could not
\* obtain a tree because MTAG_MAX_TREES trees are registered.
C11_BytesBeforeInitFrozen ==
    [][has_main_thread_tree(nMallocTrees) => bytesBeforeInit' = bytesBeforeInit]_vars

\* C12: no byte counter and no call counter of any node ever decreases,
\* whatever allocations, frees, pushes, pops and collections happen.
C12_Monotonic ==
    [][\A s \in Slots :
          /\ tree'.node[s].bytesSelf >= tree.node[s].bytesSelf
          /\ tree'.node[s].bytesSelfFreed >= tree.node[s].bytesSelfFreed
          /\ \A p \in Primitives :
                tree'.node[s].allocationsSelf[p] >= tree.node[s].allocationsSelf[p]]_vars

C14_RootWeight ==
    [][MallocTagEngine_collect_stats =>
          LET root == tree'.node[tree'.root] IN
          IF root.bytesTotal # 0
          THEN root.weightTotal = MTAG_NODE_WEIGHT_MULTIPLIER
          ELSE \A n \in Linked(tree') :
                  tree'.node[n].weightTotal = 0 /\ tree'.node[n].weightSelf = 0]_vars

\* C15: after one successful init, a later call of init, from whichever
\* thread, registers no tree, leaves the registry (count and slots) and the
\* limits as they were, does not abort, and returns true.
C15_InitIdempotent ==
    [][\A t \in Threads :
          (/\ thr'[t].late
           /\ \/ InitCall(t)
              \/ InitFetchAdd(t)
              \/ \E mn \in TreeNodesArgs, ml \in TreeLevelsArgs : InitStore(t, mn, ml))
          => /\ nMallocTrees' = nMallocTrees
             /\ slots' = slots
             /\ mainLimits' = mainLimits
             /\ ~aborted'
             /\ (thr'[t].pc = "idle" => thr'[t].initRet = "true")]_vars

\* C16: whatever the interleaving of the calls of init, no call fails its
\* assertion or returns false, and at most one thread holds a main tree, at
\* index 0 of the registry.
C16_ConcurrentInit ==
    /\ \A t \in Threads : thr[t].pc # "assert_failed" /\ thr[t].initRet # "false"
    /\ Cardinality({t \in Threads : thr[t].hasTree /\ thr[t].idx = 0}) <= 1
    /\ \A t \in Threads : thr[t].hasTree /\ thr[t].idx = 0 => slots[0] = t

\* C17: the registered-tree count never exceeds MTAG_MAX_TREES, so every
\* index below the count addresses a slot of the registry array.
C17_CountWithinCap ==
    /\ nMallocTrees <= MTAG_MAX_TREES
    /\ \A i \in 0..(nMallocTrees - 1) : i \in DOMAIN slots

\* C18: no thread is ever given more than one tree, whatever calls of init
\* and tracked operations it makes.
C18_OneTreePerThread ==
    \A t \in Threads : thr[t].trees <= 1

\* a thread got its tree at a tracked operation, made another one and called
\* init afterwards, and the main thread made tracked operations too
C18_Witness ==
    \E t, m \in Threads :
        /\ thr[t].hasTree /\ thr[t].idx > 0 /\ thr[t].trees = 1
        /\ thr[t].ops = MaxTrackedOps /\ thr[t].initRet = "true"
        /\ thr[m].hasTree /\ thr[m].idx = 0 /\ thr[m].trees = 1
        /\ thr[m].ops = MaxTrackedOps

\* C19: with an interval above zero, both output paths set and a snapshot
\* written before, a call of write_snapshot_if_needed writes a snapshot and
\* returns true when at least interval_sec seconds have passed since that
\* snapshot, and writes nothing and returns false otherwise.
C19_SnapshotWhenDue ==
    [][(/\ MallocTagEngine_write_snapshot_if_needed
        /\ snap.intervalSec > 0
        /\ snap.jsonEnv # Unset /\ snap.dotEnv # Unset
        /\ Len(snap.written) > 0)
       => IF snap.now - snap.written[Len(snap.written)].at >= snap.intervalSec
          THEN /\ Len(snap'.written) = Len(snap.written) + 1
               /\ snap'.lastRet = "true"
          ELSE /\ snap'.written = snap.written
               /\ snap'.lastRet = "false"]_vars

\* C20: the k-th snapshot written goes to <prefix>.<k-1 as four digits>.json
\* and .dot and to no other file, so no two snapshots write the same file.
C20_SnapshotNumbering ==
    /\ \A k \in 1..Len(snap.written) :
          snap.written[k].files \subseteq
              {SnapshotFile("snapshot", k - 1, "json"),
               SnapshotFile("snapshot", k - 1, "dot")}
    /\ \A j, k \in 1..Len(snap.written) :
          j # k => snap.written[j].files \cap snap.written[k].files = {}

\* C21: when init is called with snapshot_interval_sec = 0 while
\* MTAG_SNAPSHOT_INTERVAL_SEC holds n > 0, the snapshot interval in force
\* after init is n.
C21_IntervalFromEnv ==
    [][(/\ MallocTagEngine_init_with(MaxTreeNodesArg - 1, 1, MTAG_SNAPSHOT_DISABLED)
        /\ snap.intervalEnv > 0)
       => snap'.intervalSec = snap.intervalEnv]_vars

\* C22: a call write_stats(MTAG_OUTPUT_FORMAT_ALL, fullpath) that returns
\* true leaves a JSON document and a DOT document on disk, at the paths it
\* wrote to: those of the two environment variables when fullpath is empty,
\* fullpath otherwise.
C22_AllWritesBoth ==
    [][\A fullpath \in {Unset, StatsPath} :
          (/\ MallocTagEngine_write_stats("ALL", fullpath)
           /\ snap'.statsRet = "true")
          => LET targets == IF fullpath = Unset
                            THEN {snap.jsonEnv, snap.dotEnv}
                            ELSE {fullpath}
             IN /\ \E f \in targets : snap'.disk[f] = "json"
                /\ \E f \in targets : snap'.disk[f] = "dot"]_vars

\* C23: an allocation or a free the thread makes inside a disable window
\* (a HookDisabler is alive, as in collect_stats, write_stats,
\* write_snapshot_if_needed and the creation of a tree) changes no counter of
\* any node: the tree stays as it is.
C23_WindowHidesAllocs ==
    [][(/\ disablers # <<>>
        /\ \/ \E entry \in AllocEntryPoints, r \in {NULL} \cup Sizes :
                 InterceptedAlloc(entry, r)
           \/ \E n \in 0..MaxUsableSize : InterceptedFree(n))
       => tree' = tree]_vars

\* inside a disable window of a thread whose tree has charges, the blocks
\* allocated went to g_bytes_allocated_before_init
C23_Witness ==
    /\ is_ready(tree)
    /\ disablers # <<>>
    /\ ~hookActive
    /\ AllocsCharged(tree) > 0
    /\ bytesBeforeInit = TreeFootprint + 1

\* C24: disable windows nest: the hook flag of the thread is false as long
\* as any HookDisabler is alive, however many are nested, and once the
\* outermost has been destroyed it has the value it had before the outermost
\* was constructed (true, the flag being changed by nothing else); the value
\* the outermost saved is that one and the nested ones saved false.
C24_WindowsCompose ==
    /\ hookActive <=> disablers = <<>>
    /\ \A i \in DOMAIN disablers : disablers[i] <=> i = 1

\* a HookDisabler nested in another one is alive on a thread that has its
\* tree
C24_Witness ==
    /\ is_ready(tree)
    /\ Len(disablers) = MaxDisablerDepth
    /\ MaxDisablerDepth > 1
    /\ ~hookActive

\* C25: the destructor of a scope pops if and only if the push of that scope
\* succeeded: a scope whose constructor made no push, or whose push failed,
\* leaves the cursor where it is and trips no assertion, whatever happened
\* since its construction; a scope whose push succeeded moves the cursor to
\* the parent.
C25_PopIffPushed ==
    [][MallocTagScope_dtor_anywhere =>
          LET sc == scopes[Len(scopes)]
              e == EnsureTreeForThisThreadIsReady(hookActive, nMallocTrees,
                                                  mainLimits, tree)
          IN IF sc.tried /\ sc.bLastPushWasSuccessful
             THEN ~aborted' /\ tree' = pop_last_node(e.tree)
             ELSE ~aborted' /\ tree' = e.tree]_vars

\* C26: a free of a pointer whose usable size reads 0, on a thread that has
\* its tree and whose hook is active, adds one to the free-tracking failures
\* of the tree and updates no counter of any node.
C26_FreeSizeUnknown ==
    [][(/\ InterceptedFree(0)
        /\ free_is_tracked(hookActive, tree))
       => /\ tree'.nFreeTrackingFailed = tree.nFreeTrackingFailed + 1
          /\ tree'.node = tree.node]_vars

\* C27: in the human-readable output of a collection, a node whose figures
\* are shown and whose weight is at least 70% is annotated 'hot leaf' exactly
\* when it has no children and 'hot path' exactly when it has at least one.
C27_HotAnnotation ==
    [][MallocTagEngine_collect_stats =>
          \A line \in collect_stats_recursively_HUMANFRIENDLY(tree'.node, tree'.root) :
              LET node == tree'.node[line[1]] IN
              (node_is_printed(node) /\ weight_percentage_at_least(node, HotWeightPerc))
              => /\ line[2] = "hot leaf" <=> node.children = <<>>
                 /\ line[2] = "hot path" <=> node.children # <<>>]_vars

\* C28: a signal handler that calls write_stats completes and returns
\* wherever it interrupts the thread: it never ends up waiting for a lock
\* that the thread it interrupted holds, and never terminates the process.
C28_SignalHandlerReturns ==
    sig.handler \notin {"blocked", "terminated"}

\* C29: whenever the registered-tree count is n, every slot below n that the
\* registry array has holds a tree that a thread has finished constructing;
\* in particular has_main_thread_tree() implies that slot 0 holds the main
\* tree.
C29_SlotsPublishedAfterConstruction ==
    /\ \A i \in DOMAIN slots : i < nMallocTrees => slots[i] # 0
    /\ has_main_thread_tree(nMallocTrees) => slots[0] # 0

\* C30: once the teardown of the registry has set m_bShutdownStarted, no
\* step stores a tree into a slot of the registry.
C30_NoStoreAfterShutdown ==
    [][shutdown_started(teardown) => slots' = slots]_vars

\* C31: a MallocTagScope whose push fails adds one to push_failures and
\* changes nothing else of the tree: the cursor, the children list and the
\* name of every node in use, nodes_in_use, the deepest level seen and the
\* set of pool slots handed out are what they were, on the level-cap, the
\* pool-exhaustion and the sibling-cap exit alike.
C31_FailedPushFrame ==
    [][(/\ Len(scopes') > Len(scopes)
        /\ scopes'[Len(scopes')].tried
        /\ ~scopes'[Len(scopes')].bLastPushWasSuccessful)
       => /\ tree'.nPushNodeFailures = tree.nPushNodeFailures + 1
          /\ tree'.current = tree.current
          /\ tree'.poolUsed = tree.poolUsed
          /\ \A s \in tree.poolUsed :
                /\ tree'.node[s].children = tree.node[s].children
                /\ tree'.node[s].scopeName = tree.node[s].scopeName
                /\ tree'.node[s].parent = tree.node[s].parent
          /\ tree'.nTreeNodesInUse = tree.nTreeNodesInUse
          /\ tree'.nTreeLevels = tree.nTreeLevels]_vars

\* a push has just failed at the sibling cap, after its pool slot was taken
\* and given back, and pushes had failed before it
C31_Witness ==
    /\ is_ready(tree)
    /\ scopes # <<>>
    /\ scopes[Len(scopes)].outcome = "siblings"
    /\ ~scopes[Len(scopes)].bLastPushWasSuccessful
    /\ tree.nPushNodeFailures >= 2
    /\ tree.nTreeNodesInUse < tree.nMaxTreeNodes

\* how many times node s occurs in the children list of node r
Occurrences(t, r, s) ==
    Cardinality({i \in DOMAIN t.node[r].children : t.node[r].children[i] = s})

\* C32: in every reachable state the tree is well formed: the root is the
\* only node in use without a parent and is in no children list; every other
\* node in use occurs exactly once in the children list of its parent and in
\* no other list, and lies one level below its parent; the children lists
\* hold nodes in use only.
C32_WellFormedTree ==
    is_ready(tree) =>
        /\ tree.root \in InUse(tree)
        /\ tree.current \in InUse(tree)
        /\ \A s \in InUse(tree) :
              LET p == tree.node[s].parent IN
              /\ (p = NULL) <=> (s = tree.root)
              /\ Range(tree.node[s].children) \subseteq InUse(tree)
              /\ s = tree.root =>
                    /\ tree.node[s].treeLevel = 0
                    /\ \A r \in InUse(tree) : Occurrences(tree, r, s) = 0
              /\ s # tree.root =>
                    /\ p \in InUse(tree)
                    /\ tree.node[s].treeLevel = tree.node[p].treeLevel + 1
                    /\ \A r \in InUse(tree) :
                          Occurrences(tree, r, s) = (IF r = p THEN 1 ELSE 0)

\* the pool is handed out in full to a tree that is as deep as it may be and
\* whose root has as many children as it may have, and pushes have failed and
\* scopes were left on the way
C32_Witness ==
    /\ is_ready(tree)
    /\ tree.nTreeNodesInUse = tree.nMaxTreeNodes
    /\ tree.nTreeLevels = tree.nMaxTreeLevels
    /\ Len(tree.node[tree.root].children) = MTAG_MAX_CHILDREN_PER_NODE
    /\ tree.nPushNodeFailures > 0
    /\ tree.current # tree.root
    /\ \E s \in InUse(tree) : tree.node[s].timesEnteredAndExited > 0

\* the collectors inside MallocTree::collect_stats_recursively of the tree
Traversing == {c \in Collectors : coll[c].pc \in {"locked", "computed"}}

\* the thread is inside the locked section of a push or of a pop
OwnerInLockedSection == sig.pc \in {"push_locked", "pop_locked"}

\* C33: no collector is inside collect_stats_recursively of a tree while the
\* owner is inside the locked section of push_new_node or pop_last_node on
\* that tree, and no two collectors are inside it at the same time.
C33_MutualExclusion ==
    /\ Cardinality(Traversing) <= 1
    /\ ~(OwnerInLockedSection /\ Traversing # {})
    /\ \A c \in Traversing : sig.lock = c
    /\ OwnerInLockedSection => sig.lock = "thread"

\* a collector traverses the tree while the other waits for the lock between
\* its two documents, after the owner has pushed and popped
C33_Witness ==
    /\ coll["c1"].pc = "computed"
    /\ coll["c2"].pc = "between"
    /\ tree.nTreeNodesInUse > 1
    /\ sig.pc = "run"
    /\ \E s \in InUse(tree) : tree.node[s].timesEnteredAndExited > 0

\* C34: while a collector holds the lock of the tree after its pass over the
\* totals, every node of the tree has bytes_total_alloc equal to its
\* bytes_self_alloc plus the bytes_total_alloc of its children.
C34_TotalsAccurateUnderLock ==
    \A c \in Collectors :
        (coll[c].pc = "computed" /\ sig.lock = c) =>
            \A n \in Linked(tree) :
                tree.node[n].bytesTotal =
                    (tree.node[n].bytesSelf
                       + SumOver([k \in Slots |-> tree.node[k].bytesTotal],
                                 Range(tree.node[n].children))) % SizeTWrap

\* C35: when write_stats(ALL) returns, its JSON document and its DOT document
\* report the same counters for the tree and for every node of it.
C35_DocumentsCoherent ==
    \A c \in Collectors :
        (coll[c].pc = "idle" /\ coll[c].json # <<>> /\ coll[c].dot # <<>>) =>
            coll[c].json = coll[c].dot

\* C36: every call runs to completion: no thread that collects the
\* statistics of the registry ends inside its call, whatever the other
\* threads are doing.
C36_CallsReturn ==
    \A c \in Collectors : coll[c].pc # "crashed"

\* C37: with several threads calling write_snapshot_if_needed, any two
\* snapshots that follow each other are written by calls made at least
\* interval_sec seconds apart.
C37_OneSnapshotPerInterval ==
    snap.intervalSec > 0 =>
        \A k \in 2..Len(snap.written) :
            snap.written[k].at - snap.written[k - 1].at >= snap.intervalSec

\* the graph a DOT document describes: a node statement or an edge end with
\* a name already used refers to the graph node of that name
GraphNodes(out) ==
    {out[i].name : i \in {j \in DOMAIN out : out[j].kind = "node"}}

GraphEdges(out) ==
    {<<out[i].from, out[i].to>> : i \in {j \in DOMAIN out : out[j].kind = "edge"}}

\* C38: in the DOT output of a tree every node of the tree is a graph node
\* of its own, and the edges are the parent-to-child links of the tree, each
\* between the graph nodes of that parent and that child.
C38_DotIsTheTree ==
    is_ready(tree) =>
        LET out == collect_stats_recursively_GRAPHVIZDOT(tree.node, tree.root) IN
        /\ Cardinality(GraphNodes(out)) = Cardinality(Linked(tree))
        /\ \A m, n \in Linked(tree) :
              m # n => per_thread_node_name(tree.node[m])
                          # per_thread_node_name(tree.node[n])
        /\ GraphEdges(out) =
              {<<per_thread_node_name(tree.node[tree.node[n].parent]),
                 per_thread_node_name(tree.node[n])>> :
                  n \in Linked(tree) \ {tree.root}}
        /\ Cardinality(GraphEdges(out)) = Cardinality(Linked(tree)) - 1

\* C39: no tracked allocation, free or scope of a thread reads, through the
\* tree pointer the thread has cached, a tree that the teardown of the
\* registry has deleted; and once a teardown that found trees registered is
\* over, has_main_thread_tree() is false.
C39_NoUseAfterTeardown ==
    /\ [][\A t \in Threads :
             (TrackedOp(t) /\ thr[t].hasTree)
                => ~tree_destroyed(teardown, thr[t].idx)]_vars
    /\ []((teardown.pc = "done" /\ teardown.registered > 0)
             => ~has_main_thread_tree(nMallocTrees))

\* C40: a teardown of the registry that finds n > 0 trees registered hands
\* to delete only slots below n, none of them twice, and all of them by the
\* time it is over.
C40_TeardownDeletesRegistered ==
    teardown.registered > 0 =>
    /\ \A k \in DOMAIN teardown.deleted : teardown.deleted[k] < teardown.registered
    /\ \A j, k \in DOMAIN teardown.deleted :
          j # k => teardown.deleted[j] # teardown.deleted[k]
    /\ teardown.pc = "done" =>
          \A i \in 0..(teardown.registered - 1) : tree_destroyed(teardown, i)

====
